---- MODULE Spec2Model ----
(***************************************************************************)
(* CareBridge backend: the expert router, the safety guard and the chat    *)
(* turn of services/ai.py, and the send_message handler of routes/chat.py  *)
(* that drives them.                                                       *)
(*                                                                         *)
(* Text is a sequence of tokens.  A token is a single character, or the    *)
(* name of one of the program's fixed literals (a prompt, a suffix, the    *)
(* disclaimer), which the code only ever concatenates and never searches.  *)
(* Queries, keywords and model replies are character sequences, so that    *)
(* lower-casing and the substring test `kw in query_lower` are computed.   *)
(***************************************************************************)
EXTENDS Integers, Sequences, FiniteSets, TLC

VARIABLES
  \* ---- the router's class-level tables, shared by every turn ----
  system_prompts,    \* PATIENT_EXPERTS / DOCTOR_EXPERTS: [...]["system_prompt"]
  \* ---- router exercised on its own (SpecRoute) ----
  rt_query,          \* route(): query
  rt_has_document,   \* route(): has_document
  rt_user_role,      \* route(): user_role
  rt_result,         \* route(): the returned (expert_type, system_prompt), or None
  \* ---- chat() up to the outbound call, on its own (SpecChat) ----
  ch_query,                 \* chat(): query
  ch_document_context,      \* chat(): document_context
  ch_conversation_history,  \* chat(): conversation_history
  ch_user_role,             \* chat(): user_role
  ch_prepared,              \* chat(): what it has built for the call, or None
  \* ---- the service and the conversation store (Spec) ----
  NVIDIA_API_KEY,    \* settings.NVIDIA_API_KEY
  user_doc,          \* users/{user_id}: the role field of the conversation's owner
  conversation,      \* conversations/{id}: the fields send_message updates
  stored,            \* conversations/{id}/messages, in created_at order
  pc,                \* per request: position of send_message
  turn,              \* per request: locals of send_message and chat
  calls,             \* per request: outbound chat-completion calls issued
  \* ---- the document store behind the record routes ----
  users,             \* users/{id}: role and role_verification
  documents,         \* documents/{id}
  doctor_patients,   \* doctor_patients/{link_id}, in creation order
  appointing,        \* request_appointment calls between their query and their write
  conv_data,         \* conversations/{id}: user_id and the linked document_id
  access_grants,     \* access_grants/{id}, in creation order
  deleted,           \* ids of the documents delete_document has marked deleted
  approvals,         \* the approvals admin_verify_user has written
  consultations,     \* consultations/{id}, in creation order
  limits,            \* RateLimitMiddleware: max_requests and window_seconds
  requests,          \* RateLimitMiddleware.requests: per client, the timestamps
  now,               \* time.time()
  forwarded,         \* per client, the timestamps of the requests passed on
  answer             \* what the last request of a record route was answered

routeVars == <<rt_query, rt_has_document, rt_user_role, rt_result>>
prepVars  == <<ch_query, ch_document_context, ch_conversation_history,
               ch_user_role, ch_prepared>>
chatVars  == <<NVIDIA_API_KEY, user_doc, conversation, stored, pc, turn, calls>>
vars      == <<system_prompts,
               rt_query, rt_has_document, rt_user_role, rt_result,
               ch_query, ch_document_context, ch_conversation_history,
               ch_user_role, ch_prepared,
               NVIDIA_API_KEY, user_doc, conversation, stored, pc, turn, calls,
               users, documents, doctor_patients, appointing, conv_data,
               access_grants, deleted, approvals, consultations, limits,
               requests, now, forwarded, answer>>
linkVars      == <<doctor_patients, appointing>>
docVars       == <<conv_data, access_grants, deleted>>
consultVars   == <<consultations>>
rateVars      == <<limits, requests, now, forwarded>>
platformVars  == <<users, documents, linkVars, docVars, approvals, consultVars,
                   rateVars, answer>>
assistantVars == <<system_prompts, routeVars, prepVars, chatVars>>

----------------------------------------------------------------------------
(* Bounds *)

\* longest query, in vocabulary words, given to route() on its own
MaxWords == 2

\* number of send_message requests
MaxReqs == 1

\* number of send_message requests that may be in flight together
MaxConcurrent == 2

\* number of doctor_patients links created, in-flight requests included
MaxLinks == 2

\* number of document ids a send_message request selects
MaxSelected == 2

\* number of access_grants documents created
MaxGrants == 1

\* number of consultations requested
MaxConsultations == 2

\* largest max_requests and window_seconds a limiter is built with, and the
\* last reading of the clock
MaxLimit == 2
MaxWindow == 2
MaxTime == 2

\* longest conversation history given to chat() on its own
MaxHistory == 11

----------------------------------------------------------------------------
(* Text primitives: str.lower, `in`, +, slicing, str.strip *)

LowerChar(c) ==
  CASE c = "A" -> "a"
    [] c = "B" -> "b"
    [] c = "C" -> "c"
    [] c = "D" -> "d"
    [] c = "E" -> "e"
    [] c = "F" -> "f"
    [] c = "G" -> "g"
    [] c = "H" -> "h"
    [] c = "I" -> "i"
    [] c = "J" -> "j"
    [] c = "K" -> "k"
    [] c = "L" -> "l"
    [] c = "M" -> "m"
    [] c = "N" -> "n"
    [] c = "O" -> "o"
    [] c = "P" -> "p"
    [] c = "Q" -> "q"
    [] c = "R" -> "r"
    [] c = "S" -> "s"
    [] c = "T" -> "t"
    [] c = "U" -> "u"
    [] c = "V" -> "v"
    [] c = "W" -> "w"
    [] c = "X" -> "x"
    [] c = "Y" -> "y"
    [] c = "Z" -> "z"
    [] OTHER -> c

\* str.lower()
Lower(s) == [i \in 1..Len(s) |-> LowerChar(s[i])]

\* `sub in s`
Contains(sub, s) ==
  \E i \in 0..(Len(s) - Len(sub)) :
     \A j \in 1..Len(sub) : s[i + j] = sub[j]

\* s[:n]
Take(s, n) == IF Len(s) <= n THEN s ELSE SubSeq(s, 1, n)

LastN_FirstN(s, n) == IF Len(s) <= n THEN s ELSE SubSeq(s, 1, n)

\* s[-n:]
LastN(s, n) == IF Len(s) <= n THEN s ELSE SubSeq(s, Len(s) - n + 1, Len(s))

Whitespace == {" ", "\n", "\t", "\r"}

\* bool(s.strip())
NonBlank(s) == \E i \in 1..Len(s) : s[i] \notin Whitespace

----------------------------------------------------------------------------
(* class ExpertType *)

LAB_ANALYSIS == "lab_analysis"
MEDICATION   == "medication"
RADIOLOGY    == "radiology"
GENERAL      == "general_health"

ExpertType == {LAB_ANALYSIS, MEDICATION, RADIOLOGY, GENERAL}

----------------------------------------------------------------------------
(* MedicalExpertRouter: keyword lists (the same literals in both tables) *)

LAB_KEYWORDS ==
  << <<"l","a","b">>,
     <<"b","l","o","o","d">>,
     <<"t","e","s","t">>,
     <<"r","e","s","u","l","t">>,
     <<"h","e","m","o","g","l","o","b","i","n">>,
     <<"g","l","u","c","o","s","e">>,
     <<"c","h","o","l","e","s","t","e","r","o","l">>,
     <<"c","b","c">>,
     <<"m","e","t","a","b","o","l","i","c">>,
     <<"p","a","n","e","l">>,
     <<"r","a","n","g","e">>,
     <<"n","o","r","m","a","l">>,
     <<"a","b","n","o","r","m","a","l">>,
     <<"l","e","v","e","l">>,
     <<"c","o","u","n","t">>,
     <<"w","b","c">>,
     <<"r","b","c">>,
     <<"p","l","a","t","e","l","e","t">>,
     <<"c","r","e","a","t","i","n","i","n","e">>,
     <<"b","i","l","i","r","u","b","i","n">>,
     <<"a","s","t">>,
     <<"a","l","t">> >>

MEDICATION_KEYWORDS ==
  << <<"m","e","d","i","c","a","t","i","o","n">>,
     <<"d","r","u","g">>,
     <<"p","r","e","s","c","r","i","p","t","i","o","n">>,
     <<"d","o","s","a","g","e">>,
     <<"d","o","s","e">>,
     <<"s","i","d","e"," ","e","f","f","e","c","t">>,
     <<"i","n","t","e","r","a","c","t","i","o","n">>,
     <<"p","i","l","l">>,
     <<"t","a","b","l","e","t">>,
     <<"c","a","p","s","u","l","e">>,
     <<"m","g">>,
     <<"t","w","i","c","e"," ","d","a","i","l","y">>,
     <<"p","h","a","r","m","a","c","y">>,
     <<"r","e","f","i","l","l">>,
     <<"g","e","n","e","r","i","c">> >>

RADIOLOGY_KEYWORDS ==
  << <<"x","-","r","a","y">>,
     <<"x","r","a","y">>,
     <<"c","t"," ","s","c","a","n">>,
     <<"c","t">>,
     <<"m","r","i">>,
     <<"u","l","t","r","a","s","o","u","n","d">>,
     <<"i","m","a","g","i","n","g">>,
     <<"r","a","d","i","o","l","o","g","y">>,
     <<"s","c","a","n">>,
     <<"f","i","n","d","i","n","g">>,
     <<"i","m","p","r","e","s","s","i","o","n">>,
     <<"o","p","a","c","i","t","y">>,
     <<"l","e","s","i","o","n">>,
     <<"n","o","d","u","l","e">>,
     <<"m","a","s","s">>,
     <<"f","r","a","c","t","u","r","e">> >>

diagnosis_keywords ==
  << <<"d","i","a","g","n","o","s","e">>,
     <<"d","i","a","g","n","o","s","i","s">>,
     <<"w","h","a","t"," ","d","i","s","e","a","s","e">>,
     <<"w","h","a","t"," ","c","o","n","d","i","t","i","o","n">>,
     <<"a","m"," ","i"," ","s","i","c","k">>,
     <<"d","o"," ","i"," ","h","a","v","e">>,
     <<"i","s"," ","i","t"," ","c","a","n","c","e","r">>,
     <<"p","r","e","s","c","r","i","b","e">> >>

BLOCKED_PATTERNS ==
  << <<"d","i","a","g","n","o","s","e"," ","y","o","u"," ","w","i","t","h">>,
     <<"y","o","u"," ","h","a","v","e"," ","b","e","e","n"," ","d","i","a","g","n","o","s","e","d">>,
     <<"t","h","i","s"," ","c","o","n","f","i","r","m","s"," ","y","o","u"," ","h","a","v","e">>,
     <<"t","a","k","e"," ","t","h","i","s"," ","m","e","d","i","c","a","t","i","o","n">>,
     <<"s","t","o","p"," ","t","a","k","i","n","g"," ","y","o","u","r">>,
     <<"i"," ","p","r","e","s","c","r","i","b","e">>,
     <<"y","o","u","r"," ","t","r","e","a","t","m","e","n","t"," ","s","h","o","u","l","d"," ","b","e">> >>

\* The system prompts are literals, one per (table, category); the tables
\* that hold them are class attributes, built once when the module loads.
PatientPrompt(e) == << "PATIENT_EXPERTS[" \o e \o "].system_prompt" >>
DoctorPrompt(e)  == << "DOCTOR_EXPERTS[" \o e \o "].system_prompt" >>

LiteralPrompts ==
  [table \in {"PATIENT_EXPERTS", "DOCTOR_EXPERTS"} |->
     [e \in ExpertType |->
        IF table = "PATIENT_EXPERTS" THEN PatientPrompt(e) ELSE DoctorPrompt(e)]]

\* A dict is a sequence of entries in insertion order.
PATIENT_EXPERTS ==
  << [type |-> LAB_ANALYSIS, keywords |-> LAB_KEYWORDS,
      system_prompt |-> system_prompts["PATIENT_EXPERTS"][LAB_ANALYSIS]],
     [type |-> MEDICATION,   keywords |-> MEDICATION_KEYWORDS,
      system_prompt |-> system_prompts["PATIENT_EXPERTS"][MEDICATION]],
     [type |-> RADIOLOGY,    keywords |-> RADIOLOGY_KEYWORDS,
      system_prompt |-> system_prompts["PATIENT_EXPERTS"][RADIOLOGY]],
     [type |-> GENERAL,      keywords |-> << >>,
      system_prompt |-> system_prompts["PATIENT_EXPERTS"][GENERAL]] >>

DOCTOR_EXPERTS ==
  << [type |-> LAB_ANALYSIS, keywords |-> LAB_KEYWORDS,
      system_prompt |-> system_prompts["DOCTOR_EXPERTS"][LAB_ANALYSIS]],
     [type |-> MEDICATION,   keywords |-> MEDICATION_KEYWORDS,
      system_prompt |-> system_prompts["DOCTOR_EXPERTS"][MEDICATION]],
     [type |-> RADIOLOGY,    keywords |-> RADIOLOGY_KEYWORDS,
      system_prompt |-> system_prompts["DOCTOR_EXPERTS"][RADIOLOGY]],
     [type |-> GENERAL,      keywords |-> << >>,
      system_prompt |-> system_prompts["DOCTOR_EXPERTS"][GENERAL]] >>

\* experts[expert_type]
Lookup(experts, e) ==
  experts[CHOOSE i \in 1..Len(experts) : experts[i].type = e]

RECURSIVE Score_Occurrences(_, _)
Score_Occurrences(keywords, query_lower) ==
  IF keywords = << >> THEN 0
  ELSE Cardinality({i \in 0..(Len(query_lower) - Len(Head(keywords))) :
                      \A j \in 1..Len(Head(keywords)) :
                         query_lower[i + j] = Head(keywords)[j]})
       + Score_Occurrences(Tail(keywords), query_lower)

\* sum(1 for kw in config["keywords"] if kw in query_lower)
Score(keywords, query_lower) ==
  Cardinality({i \in 1..Len(keywords) : Contains(keywords[i], query_lower)})

RECURSIVE ScoresFrom_AtLeastTwo(_, _, _)
ScoresFrom_AtLeastTwo(experts, query_lower, i) ==
  IF i > Len(experts) THEN << >>
  ELSE LET config == experts[i]
           rest   == ScoresFrom_AtLeastTwo(experts, query_lower, i + 1)
           score  == Score(config.keywords, query_lower)
       IN  IF config.keywords = << >> THEN rest
           ELSE IF score > 1
                THEN << [type |-> config.type, score |-> score] >> \o rest
                ELSE rest

RECURSIVE ScoresFrom_IncludesZero(_, _, _)
ScoresFrom_IncludesZero(experts, query_lower, i) ==
  IF i > Len(experts) THEN << >>
  ELSE LET config == experts[i]
           rest   == ScoresFrom_IncludesZero(experts, query_lower, i + 1)
           score  == Score(config.keywords, query_lower)
       IN  IF config.keywords = << >> THEN rest
           ELSE IF score >= 0
                THEN << [type |-> config.type, score |-> score] >> \o rest
                ELSE rest

\* the for loop of route(): the scores dict, in insertion order
RECURSIVE ScoresFrom(_, _, _)
ScoresFrom(experts, query_lower, i) ==
  IF i > Len(experts) THEN << >>
  ELSE LET config == experts[i]
           rest   == ScoresFrom(experts, query_lower, i + 1)
           score  == Score(config.keywords, query_lower)
       IN  IF config.keywords = << >> THEN rest
           ELSE IF score > 0
                THEN << [type |-> config.type, score |-> score] >> \o rest
                ELSE rest

\* max(scores, key=scores.get): scan in order, keep the first largest
RECURSIVE MaxLast(_, _, _)
MaxLast(scores, i, best) ==
  IF i > Len(scores) THEN scores[best].type
  ELSE MaxLast(scores, i + 1,
               IF scores[i].score >= scores[best].score THEN i ELSE best)

RECURSIVE MinFirst(_, _, _)
MinFirst(scores, i, best) ==
  IF i > Len(scores) THEN scores[best].type
  ELSE MinFirst(scores, i + 1,
                IF scores[i].score < scores[best].score THEN i ELSE best)

RECURSIVE MaxByScore(_, _, _)
MaxByScore(scores, i, best) ==
  IF i > Len(scores) THEN scores[best].type
  ELSE MaxByScore(scores, i + 1,
                  IF scores[i].score > scores[best].score THEN i ELSE best)

\* route(): is_medical_professional
route_is_medical_professional_NoAdmin(user_role) ==
  user_role \in {"doctor", "clinician"}

route_is_medical_professional(user_role) ==
  user_role \in {"doctor", "clinician", "admin"}

route_DocumentAware(query, has_document, user_role) ==
  LET experts == IF route_is_medical_professional(user_role)
                 THEN DOCTOR_EXPERTS ELSE PATIENT_EXPERTS
      query_lower == Lower(query)
      scores == ScoresFrom(experts, query_lower, 1)
  IN  IF scores # << >> /\ ~has_document
      THEN LET best_expert == MaxByScore(scores, 1, 1)
           IN  [expert_type |-> best_expert,
                system_prompt |-> Lookup(experts, best_expert).system_prompt]
      ELSE [expert_type |-> GENERAL,
            system_prompt |-> Lookup(experts, GENERAL).system_prompt]

\* MedicalExpertRouter.route
route(query, has_document, user_role) ==
  LET experts == IF route_is_medical_professional(user_role)
                 THEN DOCTOR_EXPERTS ELSE PATIENT_EXPERTS
      query_lower == Lower(query)
      scores == ScoresFrom(experts, query_lower, 1)
  IN  IF scores # << >>
      THEN LET best_expert == MaxByScore(scores, 1, 1)
           IN  [expert_type |-> best_expert,
                system_prompt |-> Lookup(experts, best_expert).system_prompt]
      ELSE [expert_type |-> GENERAL,
            system_prompt |-> Lookup(experts, GENERAL).system_prompt]

----------------------------------------------------------------------------
(* Inputs *)

\* values of the role field of a users document: the three
\* clinician-equivalent strings, the other values the account routes store
\* ("patient", "", the pending roles), and strings no test recognises (the
\* field is an untyped string of the document store)
Roles ==
  {"doctor", "clinician", "admin", "patient", "",
   "doctor_pending", "clinician_pending", "nurse", "Doctor"}

\* words the queries are made of
Vocabulary ==
  { <<"b","l","o","o","d">>,
    <<"a","b","n","o","r","m","a","l">>,
    <<"d","o","s","e">>,
    <<"p","i","l","l">>,
    <<"M","R","I">>,
    <<"C","T"," ","s","c","a","n">>,
    <<"h","e","a","l","t","h">>,
    <<"i","n","t","e","r","a","c","t","i","o","n">>,
    <<"h","e","l","l","o">> }

\* " ".join(words)
RECURSIVE JoinWords(_)
JoinWords(ws) ==
  IF ws = << >> THEN << >>
  ELSE IF Len(ws) = 1 THEN ws[1]
  ELSE ws[1] \o <<" ">> \o JoinWords(Tail(ws))

\* a query that repeats one keyword next to a keyword of another category
PillPillBlood == <<"p","i","l","l"," ","p","i","l","l"," ","b","l","o","o","d">>

RouteQueries ==
  { JoinWords(ws) : ws \in UNION {[1..n -> Vocabulary] : n \in 0..MaxWords} }
    \cup {PillPillBlood}

----------------------------------------------------------------------------
(* settings (config.py) and the fixed literals of chat() *)

MEDICAL_DISCLAIMER == << "settings.MEDICAL_DISCLAIMER" >>

NVIDIA_MODEL == "meta/llama-3.1-70b-instruct"

NLNL == << "\n", "\n" >>

\* "I'm sorry, I encountered an error processing your request. Please try again later."
FALLBACK_TEXT == << "I'm sorry, I encountered an error processing your request. Please try again later." >>

\* the suffix appended for a medical professional with a document
DOCTOR_DOCUMENT_SUFFIX ==
  NLNL \o << "IMPORTANT: You have been provided with the patient's medical document. [...] Provide differential diagnoses where the data supports it. [...]" >>

\* the suffix appended for everyone else with a document
PATIENT_DOCUMENT_SUFFIX ==
  NLNL \o << "IMPORTANT: You have been provided with the user's medical document. [...] If asked about something not in the document, clearly state that." >>

DOCUMENT_HEAD == << "Here is the medical document content:\n\n---BEGIN DOCUMENT---\n" >>
DOCUMENT_MID  == << "\n---END DOCUMENT---\n\nUser's question: " >>
DOCUMENT_TAIL == << "\n\nPlease answer based on the document content above." >>

SAFETY_NOTE ==
  NLNL \o << "Note: I understand you cannot provide medical diagnosis. \nPlease explain the relevant medical concepts instead." >>

\* document_context[:8000]
DocumentBudget == 8000

\* conversation_history[-10:]
HistoryWindow == 10

\* Optional[T]: None is the empty sequence, a value v is <<v>>
Some(v) == << v >>
IsNone(o) == o = << >>
Get(o) == o[1]

----------------------------------------------------------------------------
(* SafetyGuard *)

check_input_NeverFlags(query) == [is_safe |-> TRUE, flags |-> << >>]

\* SafetyGuard.check_input
check_input(query) ==
  LET query_lower == Lower(query)
      flags == SelectSeq(diagnosis_keywords,
                         LAMBDA kw : Contains(kw, query_lower))
  IN  [is_safe |-> Len(flags) = 0, flags |-> flags]

\* sanitize_response(): the blocked-pattern warnings it logs
sanitize_response_warnings(response, user_role) ==
  IF user_role = "patient"
  THEN LET response_lower == Lower(response)
       IN  SelectSeq(BLOCKED_PATTERNS,
                     LAMBDA pattern : Contains(pattern, response_lower))
  ELSE << >>

\* sanitize_response(): the role test that returns the response unmodified
sanitize_is_medical_professional(user_role) ==
  user_role \in {"doctor", "clinician", "admin"}

sanitize_response_PatientOnly(response, user_role) ==
  IF user_role # "patient" THEN response
  ELSE response \o NLNL \o MEDICAL_DISCLAIMER

sanitize_response_Redacts(response, user_role) ==
  LET kept == IF sanitize_response_warnings(response, user_role) # << >>
              THEN << "[removed]" >> ELSE response
  IN  IF sanitize_is_medical_professional(user_role) THEN kept
      ELSE kept \o NLNL \o MEDICAL_DISCLAIMER

sanitize_response_Always(response, user_role) ==
  response \o NLNL \o MEDICAL_DISCLAIMER

\* SafetyGuard.sanitize_response
sanitize_response(response, user_role) ==
  IF sanitize_is_medical_professional(user_role) THEN response
  ELSE response \o NLNL \o MEDICAL_DISCLAIMER

----------------------------------------------------------------------------
(* AIService *)

AIService_available_Always(api_key) == TRUE

\* AIService.__init__: self._available = bool(settings.NVIDIA_API_KEY)
AIService_available(api_key) == api_key # ""

chat_is_medical_professional_NotPatient(user_role) ==
  user_role # "patient"

\* chat(): is_medical_professional
chat_is_medical_professional(user_role) ==
  user_role \in {"doctor", "clinician", "admin"}

chat_has_document_NotNone(document_context) == ~IsNone(document_context)

\* chat(): has_document = bool(document_context and document_context.strip())
chat_has_document(document_context) ==
  IF IsNone(document_context) THEN FALSE ELSE NonBlank(Get(document_context))

augment_InPlace(tables, user_role, expert_type, system_prompt) ==
  [tables EXCEPT
     ![IF chat_is_medical_professional(user_role)
       THEN "DOCTOR_EXPERTS" ELSE "PATIENT_EXPERTS"][expert_type] = system_prompt]

\* chat(): `system_prompt += ...` on a str builds a new string and rebinds
\* the local name; the table entry the prompt came from is left as it was
augment(tables, user_role, expert_type, system_prompt) == tables

\* chat(), up to the try block: everything computed before the call
chat_prepare(query, document_context, conversation_history, user_role) ==
  LET has_document == chat_has_document(document_context)
      is_medical_professional == chat_is_medical_professional(user_role)
      safety_check == check_input(query)
      routed == route(query, has_document, user_role)
      system_prompt ==
        IF has_document /\ is_medical_professional
        THEN routed.system_prompt \o DOCTOR_DOCUMENT_SUFFIX
        ELSE IF has_document
             THEN routed.system_prompt \o PATIENT_DOCUMENT_SUFFIX
             ELSE routed.system_prompt
      history ==
        IF conversation_history # << >>
        THEN LET window == LastN(conversation_history, HistoryWindow)
             IN  [i \in 1..Len(window) |->
                    [role |-> window[i].role, content |-> window[i].content]]
        ELSE << >>
      with_document ==
        IF has_document
        THEN DOCUMENT_HEAD \o Take(Get(document_context), DocumentBudget)
               \o DOCUMENT_MID \o query \o DOCUMENT_TAIL
        ELSE query
      user_content ==
        IF ~safety_check.is_safe /\ ~is_medical_professional
        THEN with_document \o SAFETY_NOTE
        ELSE with_document
  IN  [has_document  |-> has_document,
       is_safe       |-> safety_check.is_safe,
       expert_type   |-> routed.expert_type,
       system_prompt |-> system_prompt,
       messages      |-> Append(history, [role |-> "user", content |-> user_content])]

\* What chat() hands back to its caller: an AIResponse, or an exception.
Returned(response) == [raised |-> "", response |-> Some(response)]
Raised(exception)  == [raised |-> exception, response |-> << >>]

\* chat(), the try body after a successful call
chat_success(prep, result, user_role) ==
  Returned([content              |-> sanitize_response(result.text, user_role),
            expert_used          |-> prep.expert_type,
            model_used           |-> result.model,
            tokens_used          |-> result.tokens,
            has_document_context |-> prep.has_document])

chat_fallback_General(prep) ==
  Returned([content              |-> FALLBACK_TEXT \o NLNL \o MEDICAL_DISCLAIMER,
            expert_used          |-> GENERAL,
            model_used           |-> NVIDIA_MODEL,
            tokens_used          |-> 0,
            has_document_context |-> prep.has_document])

\* chat(), the `except Exception` handler
chat_fallback(prep) ==
  Returned([content              |-> FALLBACK_TEXT \o NLNL \o MEDICAL_DISCLAIMER,
            expert_used          |-> prep.expert_type,
            model_used           |-> NVIDIA_MODEL,
            tokens_used          |-> 0,
            has_document_context |-> prep.has_document])

\* chat(), the except clauses, in order: httpx.HTTPStatusError is re-raised
\* as AIServiceError, every other exception yields the fallback response
chat_except(exception, prep) ==
  IF exception = "httpx.HTTPStatusError"
  THEN Raised("AIServiceError")
  ELSE chat_fallback(prep)

----------------------------------------------------------------------------
(* routes/chat.py: send_message *)

Reqs == 1..MaxReqs

\* what db.collection("users").document(user_id) holds or does
NO_USER_DOC   == "<no user document>"
NO_ROLE_FIELD == "<no role field>"
READ_FAILS    == "<users read raises>"

RoleDocs == Roles \cup {NO_USER_DOC, NO_ROLE_FIELD, READ_FAILS}

\* send_message(): "Get user role from Firestore"
resolve_user_role(role_doc) ==
  IF role_doc \in {NO_USER_DOC, READ_FAILS} THEN "patient"
  ELSE LET user_role == IF role_doc = NO_ROLE_FIELD THEN "patient" ELSE role_doc
       IN  IF user_role \in {"doctor_pending", "clinician_pending", ""}
           THEN "patient"
           ELSE user_role

DoIHave == <<"d","o"," ","i"," ","h","a","v","e">>

\* request.content
ChatQueries ==
  { << >>,
    <<"M","R","I">>,
    <<"d","o","s","e">>,
    DoIHave \o <<" ","a","b","n","o","r","m","a","l"," ","b","l","o","o","d">> }

\* the context the document helpers hand to chat(): None or a formatted text
DocumentContexts ==
  { << >>,
    Some(<< "=== MEDICAL DOCUMENT ===\n" >> \o <<"H","b"," ","9",".","1">>) }

\* result["text"] of a well-formed completion
RawReplies ==
  { <<"o","k">>,
    <<"I"," ","p","r","e","s","c","r","i","b","e"," ","r","e","s","t">>,
    <<"o","k">> \o NLNL \o MEDICAL_DISCLAIMER }

\* usage.total_tokens of a well-formed completion
TokenCounts == {0, 57}

EmptyTurn ==
  [content |-> << >>, role_doc |-> NO_USER_DOC, user_role |-> "patient",
   document_context |-> << >>, has_document |-> FALSE, is_safe |-> TRUE,
   expert_type |-> GENERAL, system_prompt |-> << >>, messages |-> << >>,
   conversation_history |-> << >>, warnings |-> << >>,
   upstream |-> "", raw |-> << >>, outcome |-> Raised("")]

PrepOf(t) ==
  [has_document |-> t.has_document, is_safe |-> t.is_safe,
   expert_type |-> t.expert_type, system_prompt |-> t.system_prompt,
   messages |-> t.messages]

\* send_message() after `await ai_service.chat(...)`: an exception leaves
\* the handler (503); a response is saved as the assistant message.
FinishSendMessage(r, t, outcome, store) ==
  /\ turn' = [turn EXCEPT ![r] = [t EXCEPT !.outcome = outcome]]
  /\ IF outcome.raised # ""
     THEN /\ pc' = [pc EXCEPT ![r] = "raised"]
          /\ stored' = store
          /\ UNCHANGED conversation
     ELSE LET ai_response == Get(outcome.response)
              asst_msg == [id |-> <<r, "assistant">>, role |-> "assistant",
                           content |-> ai_response.content,
                           model_used |-> ai_response.model_used,
                           tokens_used |-> ai_response.tokens_used,
                           expert_used |-> ai_response.expert_used,
                           has_document_context |-> ai_response.has_document_context]
          IN  /\ pc' = [pc EXCEPT ![r] = "returned"]
              /\ stored' = Append(store, asst_msg)
              /\ conversation' = [conversation EXCEPT
                                    !.expert_used = Some(ai_response.expert_used)]

\* send_message, from the request to the outbound call (or, with the
\* service unconfigured, to the end: chat() then never suspends)
SendMessage(r, content, document_context) ==
  /\ pc[r] = "idle"
  /\ LET role_doc == user_doc
         user_role == resolve_user_role(role_doc)
         user_msg == [id |-> <<r, "user">>, role |-> "user", content |-> content]
         store == Append(stored, user_msg)
         conversation_history ==
           [i \in 1..Len(store) |->
              [role |-> store[i].role, content |-> store[i].content]]
         prep == chat_prepare(content, document_context,
                              conversation_history, user_role)
         t == [EmptyTurn EXCEPT
                 !.content = content, !.role_doc = role_doc,
                 !.user_role = user_role,
                 !.document_context = document_context,
                 !.conversation_history = conversation_history,
                 !.has_document = prep.has_document,
                 !.is_safe = prep.is_safe,
                 !.expert_type = prep.expert_type,
                 !.system_prompt = prep.system_prompt,
                 !.messages = prep.messages]
     IN  /\ system_prompts' = augment(system_prompts, user_role,
                                      prep.expert_type, prep.system_prompt)
         /\ IF ~AIService_available(NVIDIA_API_KEY)
            THEN /\ FinishSendMessage(r, [t EXCEPT !.upstream = "unconfigured"],
                                      chat_except("AIServiceError", prep), store)
                 /\ UNCHANGED calls
            ELSE /\ turn' = [turn EXCEPT ![r] = t]
                 /\ stored' = store
                 /\ pc' = [pc EXCEPT ![r] = "awaiting"]
                 /\ calls' = [calls EXCEPT ![r] = @ + 1]
                 /\ UNCHANGED conversation
  /\ UNCHANGED <<NVIDIA_API_KEY, user_doc, routeVars, prepVars, platformVars>>

\* the call returns 2xx with a well-formed body
CallReturns(r, text, tokens) ==
  /\ pc[r] = "awaiting"
  /\ LET t == [turn[r] EXCEPT
                 !.upstream = "completed", !.raw = Some(text),
                 !.warnings = sanitize_response_warnings(text, turn[r].user_role)]
         result == [text |-> text, tokens |-> tokens, model |-> NVIDIA_MODEL]
     IN  FinishSendMessage(r, t, chat_success(PrepOf(t), result, t.user_role),
                           stored)
  /\ UNCHANGED <<system_prompts, NVIDIA_API_KEY, user_doc, calls,
                 routeVars, prepVars, platformVars>>

CallTimesOut_Retry(r) ==
  /\ pc[r] = "awaiting"
  /\ calls[r] < 3
  /\ calls' = [calls EXCEPT ![r] = @ + 1]
  /\ UNCHANGED <<system_prompts, NVIDIA_API_KEY, user_doc, conversation,
                 stored, pc, turn, routeVars, prepVars, platformVars>>

\* client.post raises (timeout, connection error)
CallTimesOut(r) ==
  /\ pc[r] = "awaiting"
  /\ LET t == [turn[r] EXCEPT !.upstream = "timeout"]
     IN  FinishSendMessage(r, t, chat_except("httpx.TimeoutException", PrepOf(t)),
                           stored)
  /\ UNCHANGED <<system_prompts, NVIDIA_API_KEY, user_doc, calls,
                 routeVars, prepVars, platformVars>>

\* the call returns a non-2xx status: response.raise_for_status() raises
CallStatusError(r) ==
  /\ pc[r] = "awaiting"
  /\ LET t == [turn[r] EXCEPT !.upstream = "status"]
     IN  FinishSendMessage(r, t, chat_except("httpx.HTTPStatusError", PrepOf(t)),
                           stored)
  /\ UNCHANGED <<system_prompts, NVIDIA_API_KEY, user_doc, calls,
                 routeVars, prepVars, platformVars>>

\* the call returns 2xx with a body that is not the expected JSON:
\* response.json() or data["choices"][0]["message"]["content"] raises
CallMalformed(r) ==
  /\ pc[r] = "awaiting"
  /\ LET t == [turn[r] EXCEPT !.upstream = "malformed"]
     IN  FinishSendMessage(r, t, chat_except("KeyError", PrepOf(t)), stored)
  /\ UNCHANGED <<system_prompts, NVIDIA_API_KEY, user_doc, calls,
                 routeVars, prepVars, platformVars>>

----------------------------------------------------------------------------
(* The document store: users, documents, doctor_patients *)

\* accounts: two verified practitioners, two patients
AMY == "amy"
BOB == "bob"
CAL == "cal"
DAN == "dan"
UserIds == {AMY, BOB, CAL, DAN}

\* documents/{id}; NO_SUCH_DOC is an id under which nothing is stored
DOC_1 == "doc_1"
DOC_2 == "doc_2"
NO_SUCH_DOC == "doc_0"

\* a users document as get_profile creates it (role "" until one is chosen)
NewUser ==
  [role |-> "", verification_status |-> "", verification_submitted |-> FALSE]

UserWithRole(role) ==
  [role |-> role, verification_status |-> "approved",
   verification_submitted |-> role \in {"doctor", "clinician"}]

\* a documents document as upload_document stores it
Uploaded(user_id, ocr_text) ==
  [user_id |-> user_id, status |-> "ready", ocr_text |-> ocr_text,
   storage_path |-> "documents/" \o user_id, content_hash |-> "sha256",
   blockchain_tx_hash |-> "", integrity_valid |-> << >>,
   analysis |-> FALSE, health_records_extracted |-> FALSE]

HB_9  == <<"H","b"," ","9">>
TSH_2 == <<"T","S","H"," ","2">>

\* the answer to the request just served: the handler, the caller, the HTTP
\* status, and what the body hands out (documents of a patient, context text)
Answer(handler, user, status) ==
  [handler |-> handler, user |-> user, status |-> status,
   patient_id |-> "", document_ids |-> << >>, documents |-> {},
   text |-> << >>]

NoAnswer == Answer("", "", 0)

\* verify_doctor
verify_doctor(user_id) ==
  /\ user_id \in DOMAIN users
  /\ users[user_id].role \in {"doctor", "clinician"}

\* .where(doctor_id).where(patient_id).where("status", "in", statuses).stream()
LinksOf(doctor_id, patient_id, statuses) ==
  SelectSeq(doctor_patients,
            LAMBDA l : /\ l.doctor_id = doctor_id
                       /\ l.patient_id = patient_id
                       /\ l.status \in statuses)

\* the link document request_appointment creates
NewLink(doctor_id, patient_id) ==
  [doctor_id |-> doctor_id, patient_id |-> patient_id,
   status |-> "pending_appointment", document_access |-> "none"]

\* request_appointment, up to and including the query for an existing link:
\* the status it raises, or 0 when it goes on to create the link
request_appointment_check(patient_id, doctor_id) ==
  IF doctor_id \notin DOMAIN users THEN 404
  ELSE IF users[doctor_id].role \notin {"doctor", "clinician"} THEN 400
  ELSE IF doctor_id = patient_id THEN 400
  ELSE IF LinksOf(doctor_id, patient_id,
                  {"active", "pending_appointment"}) # << >> THEN 400
  ELSE 0

\* request_appointment: the reads.  The query and the later write are two
\* calls to the store with no transaction around them.
RequestAppointmentQuery(patient_id, doctor_id) ==
  LET raised == request_appointment_check(patient_id, doctor_id)
  IN  /\ IF raised # 0
         THEN /\ answer' = Answer("request_appointment", patient_id, raised)
              /\ UNCHANGED appointing
         ELSE /\ Len(doctor_patients) + Len(appointing) < MaxLinks
              /\ appointing' = Append(appointing,
                                      [doctor_id |-> doctor_id,
                                       patient_id |-> patient_id])
              /\ UNCHANGED answer
      /\ UNCHANGED <<users, documents, doctor_patients, docVars, approvals,
                     consultVars, rateVars, assistantVars>>

\* request_appointment: the write of the new link, and the reply
RequestAppointmentSet(i) ==
  /\ i \in 1..Len(appointing)
  /\ doctor_patients' =
       Append(doctor_patients,
              NewLink(appointing[i].doctor_id, appointing[i].patient_id))
  /\ appointing' = [j \in 1..(Len(appointing) - 1) |->
                      IF j < i THEN appointing[j] ELSE appointing[j + 1]]
  /\ answer' = Answer("request_appointment", appointing[i].patient_id, 200)
  /\ UNCHANGED <<users, documents, docVars, approvals, consultVars, rateVars,
                 assistantVars>>

\* a handler that reads one link and then updates it or raises
LinkUpdate(handler, user, outcome, link_id) ==
  /\ answer' = Answer(handler, user, outcome.status)
  /\ doctor_patients' =
       IF outcome.status = 200
       THEN [doctor_patients EXCEPT ![link_id] = outcome.link]
       ELSE doctor_patients
  /\ UNCHANGED <<users, documents, appointing, docVars, approvals, consultVars,
                 rateVars, assistantVars>>

Raises(status) == [status |-> status, link |-> << >>]
Updates(link)  == [status |-> 200, link |-> link]

\* respond_appointment_request
respond_appointment_request(doctor_id, link_id, action) ==
  IF ~verify_doctor(doctor_id) THEN Raises(403)
  ELSE IF link_id \notin 1..Len(doctor_patients) THEN Raises(404)
  ELSE LET ld == doctor_patients[link_id]
       IN  IF ld.doctor_id # doctor_id THEN Raises(403)
           ELSE IF ld.status # "pending_appointment" THEN Raises(400)
           ELSE IF action = "accept"
                THEN Updates([ld EXCEPT !.status = "active",
                                        !.document_access = "none"])
           ELSE IF action = "reject"
                THEN Updates([ld EXCEPT !.status = "rejected"])
           ELSE Raises(400)

RespondAppointmentRequest(doctor_id, link_id, action) ==
  LinkUpdate("respond_appointment_request", doctor_id,
             respond_appointment_request(doctor_id, link_id, action), link_id)

\* request_document_access
request_document_access(doctor_id, link_id) ==
  IF ~verify_doctor(doctor_id) THEN Raises(403)
  ELSE IF link_id \notin 1..Len(doctor_patients) THEN Raises(404)
  ELSE LET ld == doctor_patients[link_id]
       IN  IF ld.doctor_id # doctor_id THEN Raises(403)
           ELSE IF ld.status # "active" THEN Raises(400)
           ELSE IF ld.document_access = "granted" THEN Raises(400)
           ELSE IF ld.document_access = "requested" THEN Raises(400)
           ELSE Updates([ld EXCEPT !.document_access = "requested"])

RequestDocumentAccess(doctor_id, link_id) ==
  LinkUpdate("request_document_access", doctor_id,
             request_document_access(doctor_id, link_id), link_id)

\* unlink_patient
unlink_patient(doctor_id, link_id) ==
  IF ~verify_doctor(doctor_id) THEN Raises(403)
  ELSE IF \/ link_id \notin 1..Len(doctor_patients)
          \/ doctor_patients[link_id].doctor_id # doctor_id THEN Raises(404)
  ELSE Updates([doctor_patients[link_id] EXCEPT !.status = "removed"])

UnlinkPatient(doctor_id, link_id) ==
  LinkUpdate("unlink_patient", doctor_id,
             unlink_patient(doctor_id, link_id), link_id)

\* respond_document_access
respond_document_access(patient_id, link_id, action) ==
  IF link_id \notin 1..Len(doctor_patients) THEN Raises(404)
  ELSE LET ld == doctor_patients[link_id]
       IN  IF ld.patient_id # patient_id THEN Raises(403)
           ELSE IF ld.document_access # "requested" THEN Raises(400)
           ELSE IF action = "accept"
                THEN Updates([ld EXCEPT !.document_access = "granted"])
           ELSE IF action = "reject"
                THEN Updates([ld EXCEPT !.document_access = "denied"])
           ELSE Raises(400)

RespondDocumentAccess(patient_id, link_id, action) ==
  LinkUpdate("respond_document_access", patient_id,
             respond_document_access(patient_id, link_id, action), link_id)

\* what a handler hands out of a patient's documents
Grants(handler, user, patient_id, docs) ==
  [Answer(handler, user, 200) EXCEPT !.patient_id = patient_id,
                                     !.documents = docs]

\* the guard shared by get_patient_documents and get_patient_document_detail:
\* the status it raises, or 0
patient_documents_guard(doctor_id, patient_id) ==
  IF ~verify_doctor(doctor_id) THEN 403
  ELSE LET links == LinksOf(doctor_id, patient_id, {"active"})
       IN  IF links = << >> THEN 403
           ELSE IF links[1].document_access # "granted" THEN 403
           ELSE 0

\* get_patient_documents
get_patient_documents(doctor_id, patient_id) ==
  LET raised == patient_documents_guard(doctor_id, patient_id)
  IN  IF raised # 0 THEN Answer("get_patient_documents", doctor_id, raised)
      ELSE Grants("get_patient_documents", doctor_id, patient_id,
                  {d \in DOMAIN documents :
                     /\ documents[d].user_id = patient_id
                     /\ documents[d].status # "deleted"})

\* get_patient_document_detail
get_patient_document_detail(doctor_id, patient_id, document_id) ==
  LET raised == patient_documents_guard(doctor_id, patient_id)
      handler == "get_patient_document_detail"
  IN  IF raised # 0 THEN Answer(handler, doctor_id, raised)
      ELSE IF document_id \notin DOMAIN documents
           THEN Answer(handler, doctor_id, 404)
      ELSE IF documents[document_id].user_id # patient_id
           THEN Answer(handler, doctor_id, 403)
      ELSE Grants(handler, doctor_id, patient_id, {document_id})

\* get_document_url
get_document_url(user_id, document_id) ==
  IF document_id \notin DOMAIN documents
  THEN Answer("get_document_url", user_id, 404)
  ELSE LET doc_data == documents[document_id]
           is_owner == doc_data.user_id = user_id
           is_linked_doctor ==
             ~is_owner /\ LinksOf(user_id, doc_data.user_id, {"active"}) # << >>
       IN  IF ~is_owner /\ ~is_linked_doctor
           THEN Answer("get_document_url", user_id, 404)
           ELSE IF doc_data.storage_path = ""
                THEN Answer("get_document_url", user_id, 404)
           ELSE Grants("get_document_url", user_id, doc_data.user_id,
                       {document_id})

\* a handler that only reads the store
Reads(result) ==
  /\ answer' = result
  /\ UNCHANGED <<users, documents, linkVars, docVars, approvals, consultVars,
                 rateVars, assistantVars>>

GetPatientDocuments(doctor_id, patient_id) ==
  Reads(get_patient_documents(doctor_id, patient_id))

GetPatientDocumentDetail(doctor_id, patient_id, document_id) ==
  Reads(get_patient_document_detail(doctor_id, patient_id, document_id))

GetDocumentUrl(user_id, document_id) ==
  Reads(get_document_url(user_id, document_id))

----------------------------------------------------------------------------
(* Document routes: documents.py, blockchain.py, health_records.py, and the
   document context of a chat turn *)

\* a handler that reads one document and then updates it, or answers without
\* a write, or raises
DocUpdate(handler, user_id, status, document_id, doc_data) ==
  /\ answer' = Answer(handler, user_id, status)
  /\ documents' = IF status = 200 /\ document_id \in DOMAIN documents
                  THEN [documents EXCEPT ![document_id] = doc_data]
                  ELSE documents
  /\ UNCHANGED <<users, linkVars, conv_data, access_grants, approvals,
                 consultVars, rateVars, assistantVars>>

\* the ownership test every owner route starts with: NotFoundError unless the
\* document exists and is the caller's
Owned(user_id, document_id) ==
  /\ document_id \in DOMAIN documents
  /\ documents[document_id].user_id = user_id

\* delete_document
DeleteDocument(user_id, document_id) ==
  /\ IF ~Owned(user_id, document_id)
     THEN DocUpdate("delete_document", user_id, 404, document_id, << >>)
     ELSE DocUpdate("delete_document", user_id, 200, document_id,
                    [documents[document_id] EXCEPT !.status = "deleted"])
  /\ deleted' = IF Owned(user_id, document_id)
                THEN deleted \cup {document_id} ELSE deleted

\* anchor_document
anchor_document(doc_data) ==
  IF doc_data.blockchain_tx_hash # "" THEN doc_data
  ELSE [doc_data EXCEPT !.blockchain_tx_hash = "0x" \o doc_data.content_hash,
                        !.status = "anchored"]

AnchorDocument(user_id, document_id) ==
  /\ IF ~Owned(user_id, document_id)
     THEN DocUpdate("anchor_document", user_id, 404, document_id, << >>)
     ELSE IF documents[document_id].content_hash = ""
          THEN DocUpdate("anchor_document", user_id, 422, document_id, << >>)
     ELSE DocUpdate("anchor_document", user_id, 200, document_id,
                    anchor_document(documents[document_id]))
  /\ UNCHANGED deleted

\* verify_document: is_valid is whether the stored file still hashes to
\* content_hash
VerifyDocument(user_id, document_id, is_valid) ==
  /\ IF ~Owned(user_id, document_id)
     THEN DocUpdate("verify_document", user_id, 404, document_id, << >>)
     ELSE DocUpdate("verify_document", user_id, 200, document_id,
                    [documents[document_id] EXCEPT
                       !.integrity_valid =
                          Some(documents[document_id].storage_path # ""
                               /\ is_valid)])
  /\ UNCHANGED deleted

\* analyze_document
AnalyzeDocument(user_id, document_id) ==
  /\ IF ~Owned(user_id, document_id)
     THEN DocUpdate("analyze_document", user_id, 404, document_id, << >>)
     ELSE DocUpdate("analyze_document", user_id, 200, document_id,
                    IF documents[document_id].ocr_text = << >>
                    THEN documents[document_id]
                    ELSE [documents[document_id] EXCEPT !.analysis = TRUE])
  /\ UNCHANGED deleted

\* extract_health_records
ExtractHealthRecords(user_id, document_id) ==
  /\ IF ~Owned(user_id, document_id)
     THEN DocUpdate("extract_health_records", user_id, 404, document_id, << >>)
     ELSE DocUpdate("extract_health_records", user_id, 200, document_id,
                    IF ~NonBlank(documents[document_id].ocr_text)
                    THEN documents[document_id]
                    ELSE [documents[document_id] EXCEPT
                            !.health_records_extracted = TRUE])
  /\ UNCHANGED deleted

\* grant_access
GrantAccess(user_id, document_id, grantee_id) ==
  /\ IF ~Owned(user_id, document_id)
     THEN /\ answer' = Answer("grant_access", user_id, 404)
          /\ UNCHANGED access_grants
     ELSE /\ Len(access_grants) < MaxGrants
          /\ answer' = Answer("grant_access", user_id, 200)
          /\ access_grants' =
               Append(access_grants,
                      [document_id |-> document_id, grantor_id |-> user_id,
                       grantee_id |-> grantee_id, access_level |-> "read",
                       status |-> "active"])
  /\ UNCHANGED <<users, documents, linkVars, conv_data, deleted, approvals,
                 consultVars, rateVars, assistantVars>>

\* list_documents, first page, no document_type filter
list_documents(user_id) ==
  [Answer("list_documents", user_id, 200) EXCEPT
     !.documents = {d \in DOMAIN documents :
                      /\ documents[d].user_id = user_id
                      /\ documents[d].status # "deleted"}]

ListDocuments(user_id) == Reads(list_documents(user_id))

\* get_document
get_document(user_id, document_id) ==
  IF ~Owned(user_id, document_id) THEN Answer("get_document", user_id, 404)
  ELSE IF documents[document_id].status = "deleted"
       THEN Answer("get_document", user_id, 404)
  ELSE [Answer("get_document", user_id, 200) EXCEPT
          !.documents = {document_id}]

GetDocument(user_id, document_id) == Reads(get_document(user_id, document_id))

\* link_document_to_conversation: the conversation must be the caller's, and so must the
\* document
LinkDocumentToConversation(user_id, document_id) ==
  /\ IF conv_data.user_id # user_id \/ ~Owned(user_id, document_id)
     THEN /\ answer' = Answer("link_document_to_conversation", user_id, 404)
          /\ UNCHANGED conv_data
     ELSE /\ answer' = Answer("link_document_to_conversation", user_id, 200)
          /\ conv_data' = [conv_data EXCEPT !.document_id = document_id]
  /\ UNCHANGED <<users, documents, linkVars, access_grants, deleted, approvals,
                 consultVars, rateVars, assistantVars>>

\* the fixed text around the OCR text of a document in a context
CONTEXT_HEAD ==
  << "=== MEDICAL DOCUMENT ===\nFilename: {filename}\nType: {doc_type}\n========================\n\n" >>
SELECTED_HEADER == << "\n--- DOCUMENT: {filename} (Type: {doc_type}) ---\n" >>
SELECTED_NOTE ==
  << "[Text extraction was not available for this document. File: {filename}, Type: {doc_type}, Size: {file_size} bytes]" >>
SELECTED_END == << "\n\n=== END OF DOCUMENTS ===" >>

SelectedHead(doc_count) ==
  << "=== SELECTED MEDICAL DOCUMENTS (", ToString(doc_count),
     " document(s)) ===\n" >>

\* max_chars of get_selected_documents_context, and the remainder below
\* which it stops adding documents
SelectedBudget == 12000
SelectedFloor  == 200

\* get_document_context
get_document_context(document_id, user_id) ==
  IF document_id = "" THEN << >>
  ELSE IF document_id \notin DOMAIN documents THEN << >>
  ELSE IF documents[document_id].user_id # user_id THEN << >>
  ELSE LET ocr_text == documents[document_id].ocr_text
       IN  IF ~NonBlank(ocr_text) THEN << >>
           ELSE Some(CONTEXT_HEAD \o ocr_text)

RECURSIVE context_parts_AnyOwner(_, _, _, _)
context_parts_AnyOwner(document_ids, user_id, i, total_chars) ==
  IF i > Len(document_ids) THEN << >>
  ELSE LET doc_id == document_ids[i]
           skip == context_parts_AnyOwner(document_ids, user_id, i + 1, total_chars)
       IN  IF doc_id \notin DOMAIN documents THEN skip
           ELSE IF documents[doc_id].status = "deleted" THEN skip
           ELSE LET ocr_text == documents[doc_id].ocr_text
                    remaining == SelectedBudget - total_chars
                                   - Len(SELECTED_HEADER)
                    added == IF ~NonBlank(ocr_text) THEN SELECTED_NOTE
                             ELSE Take(ocr_text, remaining)
                    part == SELECTED_HEADER \o added
                IN  IF remaining <= SelectedFloor THEN << >>
                    ELSE << part >> \o
                         context_parts_AnyOwner(document_ids, user_id, i + 1,
                                       total_chars + Len(part))

\* the for loop of get_selected_documents_context: context_parts
RECURSIVE context_parts(_, _, _, _)
context_parts(document_ids, user_id, i, total_chars) ==
  IF i > Len(document_ids) THEN << >>
  ELSE LET doc_id == document_ids[i]
           skip == context_parts(document_ids, user_id, i + 1, total_chars)
       IN  IF doc_id \notin DOMAIN documents THEN skip
           ELSE IF documents[doc_id].user_id # user_id THEN skip
           ELSE IF documents[doc_id].status = "deleted" THEN skip
           ELSE LET ocr_text == documents[doc_id].ocr_text
                    remaining == SelectedBudget - total_chars
                                   - Len(SELECTED_HEADER)
                    added == IF ~NonBlank(ocr_text) THEN SELECTED_NOTE
                             ELSE Take(ocr_text, remaining)
                    part == SELECTED_HEADER \o added
                IN  IF remaining <= SelectedFloor THEN << >>
                    ELSE << part >> \o
                         context_parts(document_ids, user_id, i + 1,
                                       total_chars + Len(part))

\* "\n".join(parts)
RECURSIVE JoinLines(_)
JoinLines(parts) ==
  IF parts = << >> THEN << >>
  ELSE IF Len(parts) = 1 THEN parts[1]
  ELSE parts[1] \o << "\n" >> \o JoinLines(Tail(parts))

\* get_selected_documents_context
get_selected_documents_context(document_ids, user_id) ==
  IF document_ids = << >> THEN << >>
  ELSE LET parts == context_parts(document_ids, user_id, 1, 0)
       IN  IF parts = << >> THEN << >>
           ELSE Some(SelectedHead(Len(parts)) \o JoinLines(parts)
                       \o SELECTED_END)

\* send_message, from the request to the document context it builds
send_message_context(user_id, document_ids) ==
  IF conv_data.user_id # user_id THEN Answer("send_message", user_id, 404)
  ELSE LET document_context ==
             IF document_ids # << >>
             THEN get_selected_documents_context(document_ids, user_id)
             ELSE IF conv_data.document_id # ""
                  THEN get_document_context(conv_data.document_id, user_id)
                  ELSE << >>
       IN  [Answer("send_message", user_id, 200) EXCEPT
              !.document_ids = document_ids, !.text = document_context]

SendMessageContext(user_id, document_ids) ==
  Reads(send_message_context(user_id, document_ids))

----------------------------------------------------------------------------
(* Role routes: auth.py *)

INSTANT_ROLES == {"patient"}

PENDING_ROLE_MAP ==
  [r \in {"doctor", "clinician"} |->
     IF r = "doctor" THEN "doctor_pending" ELSE "clinician_pending"]

APPROVED_ROLE_MAP ==
  [r \in {"doctor_pending", "clinician_pending"} |->
     IF r = "doctor_pending" THEN "doctor" ELSE "clinician"]

\* the characters of a role name, as one string
RECURSIVE AsString(_)
AsString(chars) == IF chars = << >> THEN "" ELSE Head(chars) \o AsString(Tail(chars))

\* a handler that updates one users document, or raises
UserUpdate(handler, caller, status, user_id, user_data) ==
  /\ answer' = Answer(handler, caller, status)
  /\ users' = IF status = 200 THEN [users EXCEPT ![user_id] = user_data]
              ELSE users
  /\ UNCHANGED <<documents, linkVars, docVars, consultVars, rateVars,
                 assistantVars>>

update_profile_Instant(user_data, role) ==
  IF role = << >> THEN [status |-> 200, user |-> user_data]
  ELSE LET current_role == user_data.role
           requested_role == AsString(Lower(Get(role)))
       IN  IF current_role \notin {"", "rejected"}
           THEN [status |-> 400, user |-> user_data]
           ELSE IF requested_role \notin {"patient", "doctor", "clinician"}
                THEN [status |-> 400, user |-> user_data]
           ELSE [status |-> 200,
                 user |-> [user_data EXCEPT
                             !.role = requested_role,
                             !.verification_status = "approved"]]

\* update_profile: role is updates.role, or None
update_profile(user_data, role) ==
  IF role = << >> THEN [status |-> 200, user |-> user_data]
  ELSE LET current_role == user_data.role
           requested_role == AsString(Lower(Get(role)))
       IN  IF current_role \notin {"", "rejected"}
           THEN [status |-> 400, user |-> user_data]
           ELSE IF requested_role \notin {"patient", "doctor", "clinician"}
                THEN [status |-> 400, user |-> user_data]
           ELSE IF requested_role \in INSTANT_ROLES
                THEN [status |-> 200,
                      user |-> [user_data EXCEPT
                                  !.role = "patient",
                                  !.verification_status = "approved"]]
           ELSE [status |-> 200,
                 user |-> [user_data EXCEPT
                             !.role = PENDING_ROLE_MAP[requested_role],
                             !.verification_status = "pending"]]

UpdateProfile(user_id, role) ==
  /\ LET result == update_profile(users[user_id], role)
     IN  UserUpdate("update_profile", user_id, result.status, user_id,
                    result.user)
  /\ UNCHANGED approvals

\* submit_role_verification
SubmitRoleVerification(user_id) ==
  /\ IF users[user_id].role \notin {"doctor_pending", "clinician_pending"}
     THEN UserUpdate("submit_role_verification", user_id, 400, user_id, << >>)
     ELSE UserUpdate("submit_role_verification", user_id, 200, user_id,
                     [users[user_id] EXCEPT
                        !.verification_submitted = TRUE,
                        !.verification_status = "pending"])
  /\ UNCHANGED approvals

\* admin_verify_user
admin_verify_user(admin_id, user_id, action) ==
  IF users[admin_id].role # "admin" THEN 403
  ELSE IF user_id \notin DOMAIN users THEN 404
  ELSE IF users[user_id].role \notin DOMAIN APPROVED_ROLE_MAP THEN 400
  ELSE IF action \in {"approve", "reject"} THEN 200
  ELSE 400

AdminVerifyUser(admin_id, user_id, action) ==
  LET status == admin_verify_user(admin_id, user_id, action)
  IN  IF status # 200
      THEN /\ UserUpdate("admin_verify_user", admin_id, status, user_id, << >>)
           /\ UNCHANGED approvals
      ELSE IF action = "approve"
      THEN /\ UserUpdate("admin_verify_user", admin_id, 200, user_id,
                         [users[user_id] EXCEPT
                            !.role = APPROVED_ROLE_MAP[users[user_id].role],
                            !.verification_status = "approved"])
           /\ approvals' = approvals \cup
                             {[user_id |-> user_id,
                               pending_role |-> users[user_id].role,
                               verified_by |-> admin_id]}
      ELSE /\ UserUpdate("admin_verify_user", admin_id, 200, user_id,
                         [users[user_id] EXCEPT
                            !.role = "",
                            !.verification_status = "rejected"])
           /\ UNCHANGED approvals

----------------------------------------------------------------------------
(* Consultation routes: doctor_patient.py *)

\* the consultation document request_consultation creates
NewConsultation(patient_id, doctor_id, document_ids) ==
  [patient_id |-> patient_id, doctor_id |-> doctor_id,
   document_ids |-> document_ids,
   status |-> "pending_payment", payment_status |-> "unpaid",
   payment_data |-> << >>, doctor_response |-> << >>]

\* request_consultation: the status it raises, or 200
request_consultation(patient_id, doctor_id, document_ids) ==
  IF \/ doctor_id \notin DOMAIN users
     \/ users[doctor_id].role \notin {"doctor", "clinician"} THEN 404
  ELSE IF LinksOf(doctor_id, patient_id, {"active"}) = << >> THEN 403
  ELSE IF \E i \in 1..Len(document_ids) :
             \/ document_ids[i] \notin DOMAIN documents
             \/ documents[document_ids[i]].user_id # patient_id THEN 400
  ELSE 200

RequestConsultation(patient_id, doctor_id, document_ids) ==
  LET status == request_consultation(patient_id, doctor_id, document_ids)
  IN  /\ status = 200 => Len(consultations) < MaxConsultations
      /\ answer' = Answer("request_consultation", patient_id, status)
      /\ consultations' =
           IF status = 200
           THEN Append(consultations,
                       NewConsultation(patient_id, doctor_id, document_ids))
           ELSE consultations
      /\ UNCHANGED <<users, documents, linkVars, docVars, approvals, rateVars,
                     assistantVars>>

\* a handler that reads one consultation and then updates it or raises
ConsultationUpdate(handler, user, outcome, consultation_id) ==
  /\ answer' = Answer(handler, user, outcome.status)
  /\ consultations' =
       IF outcome.status = 200
       THEN [consultations EXCEPT ![consultation_id] = outcome.consultation]
       ELSE consultations
  /\ UNCHANGED <<users, documents, linkVars, docVars, approvals, rateVars,
                 assistantVars>>

Refuses(status)       == [status |-> status, consultation |-> << >>]
Rewrites(consultation) == [status |-> 200, consultation |-> consultation]

pay_consultation_Repeatable(patient_id, consultation_id, transaction_id) ==
  IF consultation_id \notin 1..Len(consultations) THEN Refuses(404)
  ELSE LET cons_data == consultations[consultation_id]
       IN  IF cons_data.patient_id # patient_id THEN Refuses(403)
           ELSE Rewrites([cons_data EXCEPT
                            !.payment_status = "paid",
                            !.status = "in_review",
                            !.payment_data = <<transaction_id>>])

\* pay_consultation
pay_consultation(patient_id, consultation_id, transaction_id) ==
  IF consultation_id \notin 1..Len(consultations) THEN Refuses(404)
  ELSE LET cons_data == consultations[consultation_id]
       IN  IF cons_data.patient_id # patient_id THEN Refuses(403)
           ELSE IF cons_data.payment_status = "paid" THEN Refuses(400)
           ELSE Rewrites([cons_data EXCEPT
                            !.payment_status = "paid",
                            !.status = "in_review",
                            !.payment_data = <<transaction_id>>])

PayConsultation(patient_id, consultation_id, transaction_id) ==
  ConsultationUpdate("pay_consultation", patient_id,
                     pay_consultation(patient_id, consultation_id,
                                      transaction_id),
                     consultation_id)

\* doctor_respond
doctor_respond(doctor_id, consultation_id, response_text) ==
  IF ~verify_doctor(doctor_id) THEN Refuses(403)
  ELSE IF consultation_id \notin 1..Len(consultations) THEN Refuses(404)
  ELSE LET cd == consultations[consultation_id]
       IN  IF cd.doctor_id # doctor_id THEN Refuses(403)
           ELSE IF cd.payment_status # "paid" THEN Refuses(400)
           ELSE Rewrites([cd EXCEPT
                            !.doctor_response = response_text,
                            !.status = "completed"])

DoctorRespond(doctor_id, consultation_id, response_text) ==
  ConsultationUpdate("doctor_respond", doctor_id,
                     doctor_respond(doctor_id, consultation_id, response_text),
                     consultation_id)

----------------------------------------------------------------------------
(* Rate limiting: middleware/security.py *)

\* RateLimitMiddleware.__init__: the defaults, which main.py leaves in place
DEFAULT_MAX_REQUESTS   == 100
DEFAULT_WINDOW_SECONDS == 60

Limits(max_requests, window_seconds) ==
  [max_requests |-> max_requests, window_seconds |-> window_seconds]

HEALTH_PATHS == {"/api/v1/health", "/health"}

\* self.requests[client_ip] of a defaultdict(list)
RequestsOf(client_ip) ==
  IF client_ip \in DOMAIN requests THEN requests[client_ip] ELSE << >>

\* how many requests of the client with timestamp t were passed on
Forwarded(client_ip, t) ==
  IF <<client_ip, t>> \in DOMAIN forwarded THEN forwarded[<<client_ip, t>>]
  ELSE 0

dispatch_OffByOne(client_ip, path) ==
  IF path \in HEALTH_PATHS
  THEN [status |-> 200, touched |-> FALSE, recorded |-> << >>,
        counted |-> FALSE]
  ELSE LET current_time == now
           window_start == current_time - limits.window_seconds
           cleaned == SelectSeq(RequestsOf(client_ip),
                                LAMBDA t : t > window_start)
       IN  IF Len(cleaned) > limits.max_requests
           THEN [status |-> 429, touched |-> TRUE, recorded |-> cleaned,
                 counted |-> FALSE]
           ELSE [status |-> 200, touched |-> TRUE,
                 recorded |-> Append(cleaned, current_time),
                 counted |-> TRUE]

\* RateLimitMiddleware.dispatch: the status answered, whether
\* self.requests[client_ip] was assigned and to what, and whether the request
\* was passed on as a counted one
dispatch(client_ip, path) ==
  IF path \in HEALTH_PATHS
  THEN [status |-> 200, touched |-> FALSE, recorded |-> << >>,
        counted |-> FALSE]
  ELSE LET current_time == now
           window_start == current_time - limits.window_seconds
           cleaned == SelectSeq(RequestsOf(client_ip),
                                LAMBDA t : t > window_start)
       IN  IF Len(cleaned) >= limits.max_requests
           THEN [status |-> 429, touched |-> TRUE, recorded |-> cleaned,
                 counted |-> FALSE]
           ELSE [status |-> 200, touched |-> TRUE,
                 recorded |-> Append(cleaned, current_time),
                 counted |-> TRUE]

Dispatch(client_ip, path) ==
  LET result == dispatch(client_ip, path)
  IN  /\ answer' = Answer("dispatch", client_ip, result.status)
      /\ requests' = IF result.touched
                     THEN (client_ip :> result.recorded) @@ requests
                     ELSE requests
      /\ forwarded' = IF result.counted
                      THEN (<<client_ip, now>> :> Forwarded(client_ip, now) + 1)
                             @@ forwarded
                      ELSE forwarded
      /\ UNCHANGED <<users, documents, linkVars, docVars, approvals,
                     consultVars, limits, now, assistantVars>>

\* time.time() moves on between two requests
Tick ==
  /\ now < MaxTime
  /\ now' = now + 1
  /\ UNCHANGED <<users, documents, linkVars, docVars, approvals, consultVars,
                 limits, requests, forwarded, answer, assistantVars>>

----------------------------------------------------------------------------
(* Specifications *)

\* the tables as the module defines them
TablesLoaded == system_prompts = LiteralPrompts

RouteIdle ==
  /\ rt_query = << >>
  /\ rt_has_document = FALSE
  /\ rt_user_role = "patient"
  /\ rt_result = << >>

PrepIdle ==
  /\ ch_query = << >>
  /\ ch_document_context = << >>
  /\ ch_conversation_history = << >>
  /\ ch_user_role = "patient"
  /\ ch_prepared = << >>

LinksIdle ==
  /\ doctor_patients = << >>
  /\ appointing = << >>

DocsIdle ==
  /\ conv_data = [user_id |-> CAL, document_id |-> ""]
  /\ access_grants = << >>
  /\ deleted = {}

ConsultIdle == consultations = << >>

RateIdle ==
  /\ limits = Limits(DEFAULT_MAX_REQUESTS, DEFAULT_WINDOW_SECONDS)
  /\ requests = << >>
  /\ now = 0
  /\ forwarded = << >>

PlatformIdle ==
  /\ users = [u \in UserIds |-> NewUser]
  /\ documents = << >>
  /\ LinksIdle
  /\ DocsIdle
  /\ approvals = {}
  /\ ConsultIdle
  /\ RateIdle
  /\ answer = NoAnswer

AssistantIdle ==
  /\ TablesLoaded
  /\ RouteIdle
  /\ PrepIdle
  /\ NVIDIA_API_KEY = ""
  /\ user_doc = NO_USER_DOC
  /\ conversation = [expert_used |-> << >>]
  /\ stored = << >>
  /\ pc = [r \in Reqs |-> "idle"]
  /\ turn = [r \in Reqs |-> EmptyTurn]
  /\ calls = [r \in Reqs |-> 0]

ChatIdle ==
  /\ NVIDIA_API_KEY = ""
  /\ user_doc = NO_USER_DOC
  /\ conversation = [expert_used |-> << >>]
  /\ stored = << >>
  /\ pc = [r \in Reqs |-> "idle"]
  /\ turn = [r \in Reqs |-> EmptyTurn]
  /\ calls = [r \in Reqs |-> 0]

\* The service is constructed once, with or without an API key.  The
\* conversation belongs to one user (get_conversation_with_auth), whose
\* users document holds some role, or is missing, or cannot be read.
Init ==
  /\ NVIDIA_API_KEY \in {"", "nvapi-key"}
  /\ user_doc \in RoleDocs
  /\ conversation = [expert_used |-> << >>]
  /\ stored = << >>
  /\ pc = [r \in Reqs |-> "idle"]
  /\ turn = [r \in Reqs |-> EmptyTurn]
  /\ calls = [r \in Reqs |-> 0]
  /\ RouteIdle
  /\ PrepIdle
  /\ TablesLoaded
  /\ PlatformIdle

Next ==
  \E r \in Reqs :
     \/ \E content \in ChatQueries, document_context \in DocumentContexts :
           SendMessage(r, content, document_context)
     \/ \E text \in RawReplies, tokens \in TokenCounts :
           CallReturns(r, text, tokens)
     \/ CallTimesOut(r)
     \/ CallStatusError(r)
     \/ CallMalformed(r)

Spec == Init /\ [][Next]_vars

\* route() on its own: the arguments are drawn, then the function is applied
InitRoute ==
  /\ rt_query \in RouteQueries
  /\ rt_has_document \in BOOLEAN
  /\ rt_user_role \in Roles
  /\ rt_result = << >>
  /\ ChatIdle
  /\ PrepIdle
  /\ TablesLoaded
  /\ PlatformIdle

Route ==
  /\ rt_result = << >>
  /\ rt_result' = Some(route(rt_query, rt_has_document, rt_user_role))
  /\ UNCHANGED <<system_prompts, rt_query, rt_has_document, rt_user_role,
                 chatVars, prepVars, platformVars>>

NextRoute == Route

SpecRoute == InitRoute /\ [][NextRoute]_vars

\* document_context as any caller may pass it: None, "", whitespace only,
\* or a text
ChatDocumentContexts ==
  DocumentContexts \cup { Some(<< >>), Some(<<" ", "\n">>) }

\* a supplied history of n turns, oldest first, every turn distinct
HistoryOf(n) ==
  [i \in 1..n |->
     [role    |-> IF i % 2 = 1 THEN "user" ELSE "assistant",
      content |-> << "turn ", ToString(i) >>]]

\* chat() on its own, up to the call: the arguments are drawn, then the
\* system prompt and the outgoing turns are built
InitChat ==
  /\ ch_query \in ChatQueries
  /\ ch_document_context \in ChatDocumentContexts
  /\ ch_conversation_history \in {HistoryOf(n) : n \in 0..MaxHistory}
  /\ ch_user_role \in Roles
  /\ ch_prepared = << >>
  /\ ChatIdle
  /\ RouteIdle
  /\ TablesLoaded
  /\ PlatformIdle

ChatPrepare ==
  /\ ch_prepared = << >>
  /\ LET prep == chat_prepare(ch_query, ch_document_context,
                              ch_conversation_history, ch_user_role)
     IN  /\ ch_prepared' = Some(prep)
         /\ system_prompts' = augment(system_prompts, ch_user_role,
                                      prep.expert_type, prep.system_prompt)
  /\ UNCHANGED <<ch_query, ch_document_context, ch_conversation_history,
                 ch_user_role, chatVars, routeVars, platformVars>>

NextChat == ChatPrepare

SpecChat == InitChat /\ [][NextChat]_vars

\* Concurrent turns: several send_message requests of one user on one
\* conversation, each suspended at its outbound call while others run.
ConcReqs == 1..MaxConcurrent

ConcQueries == { <<"M","R","I">>, <<"d","o","s","e">> }

ConcReplies == { <<"o","k">> }

InitConc ==
  /\ NVIDIA_API_KEY = "nvapi-key"
  /\ user_doc \in {"patient", "doctor"}
  /\ conversation = [expert_used |-> << >>]
  /\ stored = << >>
  /\ pc = [r \in ConcReqs |-> "idle"]
  /\ turn = [r \in ConcReqs |-> EmptyTurn]
  /\ calls = [r \in ConcReqs |-> 0]
  /\ RouteIdle
  /\ PrepIdle
  /\ TablesLoaded
  /\ PlatformIdle

NextConc ==
  \E r \in ConcReqs :
     \/ \E content \in ConcQueries, document_context \in DocumentContexts :
           SendMessage(r, content, document_context)
     \/ \E text \in ConcReplies : CallReturns(r, text, 57)
     \/ CallTimesOut(r)

SpecConc == InitConc /\ [][NextConc]_vars

\* The link routes of doctor_patient.py and get_document_url: two verified
\* practitioners, two patients who each own one uploaded document.
InitLinks ==
  /\ users = [u \in UserIds |->
                CASE u = AMY -> UserWithRole("doctor")
                  [] u = BOB -> UserWithRole("clinician")
                  [] OTHER   -> UserWithRole("patient")]
  /\ documents = [d \in {DOC_1, DOC_2} |->
                    IF d = DOC_1 THEN Uploaded(CAL, HB_9)
                    ELSE Uploaded(DAN, TSH_2)]
  /\ doctor_patients = << >>
  /\ appointing = << >>
  /\ DocsIdle
  /\ approvals = {}
  /\ ConsultIdle
  /\ RateIdle
  /\ answer = NoAnswer
  /\ AssistantIdle

LinkIds == 1..MaxLinks

NextLinks ==
  \/ \E doctor_id \in {AMY, DAN, "nobody"} :
        RequestAppointmentQuery(CAL, doctor_id)
  \/ \E i \in LinkIds : RequestAppointmentSet(i)
  \/ \E doctor_id \in {AMY, BOB, CAL}, link_id \in LinkIds,
        action \in {"accept", "reject", "later"} :
        RespondAppointmentRequest(doctor_id, link_id, action)
  \/ \E doctor_id \in {AMY, BOB}, link_id \in LinkIds :
        RequestDocumentAccess(doctor_id, link_id)
  \/ \E doctor_id \in {AMY, BOB}, link_id \in LinkIds :
        UnlinkPatient(doctor_id, link_id)
  \/ \E patient_id \in {CAL, DAN}, link_id \in LinkIds,
        action \in {"accept", "reject", "later"} :
        RespondDocumentAccess(patient_id, link_id, action)
  \/ \E doctor_id \in {AMY, BOB}, patient_id \in {CAL, DAN} :
        GetPatientDocuments(doctor_id, patient_id)
  \/ \E doctor_id \in {AMY, BOB}, patient_id \in {CAL, DAN},
        document_id \in {DOC_1, DOC_2, NO_SUCH_DOC} :
        GetPatientDocumentDetail(doctor_id, patient_id, document_id)
  \/ \E user_id \in {AMY, BOB, CAL}, document_id \in {DOC_1, DOC_2, NO_SUCH_DOC} :
        GetDocumentUrl(user_id, document_id)

SpecLinks == InitLinks /\ [][NextLinks]_vars

\* The document routes: cal and dan each own one uploaded document, and cal
\* owns the conversation.  The conversation is created with or without a
\* linked document (create_conversation accepts an own document only).
InitDocs ==
  /\ users = [u \in UserIds |->
                CASE u = AMY -> UserWithRole("doctor")
                  [] u = BOB -> UserWithRole("clinician")
                  [] OTHER   -> UserWithRole("patient")]
  /\ documents = [d \in {DOC_1, DOC_2} |->
                    IF d = DOC_1 THEN Uploaded(CAL, HB_9)
                    ELSE Uploaded(DAN, TSH_2)]
  /\ conv_data \in {[user_id |-> CAL, document_id |-> d] : d \in {"", DOC_1}}
  /\ access_grants = << >>
  /\ deleted = {}
  /\ LinksIdle
  /\ approvals = {}
  /\ ConsultIdle
  /\ RateIdle
  /\ answer = NoAnswer
  /\ AssistantIdle

DocumentIds == {DOC_1, DOC_2, NO_SUCH_DOC}

\* request.document_ids
Selections == UNION {[1..n -> DocumentIds] : n \in 0..MaxSelected}

\* cal works on the documents; dan only reads
NextDocs ==
  \/ \E document_id \in DocumentIds :
        \/ DeleteDocument(CAL, document_id)
        \/ AnchorDocument(CAL, document_id)
        \/ \E is_valid \in BOOLEAN : VerifyDocument(CAL, document_id, is_valid)
        \/ AnalyzeDocument(CAL, document_id)
        \/ ExtractHealthRecords(CAL, document_id)
        \/ GrantAccess(CAL, document_id, AMY)
        \/ LinkDocumentToConversation(CAL, document_id)
  \/ \E user_id \in {CAL, DAN} :
        \/ ListDocuments(user_id)
        \/ \E document_id \in DocumentIds : GetDocument(user_id, document_id)
        \/ \E document_ids \in Selections :
              SendMessageContext(user_id, document_ids)

SpecDocs == InitDocs /\ [][NextDocs]_vars

\* The role routes: every account starts as get_current_user_profile creates
\* it, dan with an address of the admin list, the others without a role.
InitAuth ==
  /\ users = [u \in UserIds |->
                IF u = DAN THEN UserWithRole("admin") ELSE NewUser]
  /\ approvals = {}
  /\ documents = << >>
  /\ LinksIdle
  /\ DocsIdle
  /\ ConsultIdle
  /\ RateIdle
  /\ answer = NoAnswer
  /\ AssistantIdle

\* updates.role: absent, or a string
RequestedRoles ==
  { << >>,
    Some(<<"p","a","t","i","e","n","t">>),
    Some(<<"D","o","c","t","o","r">>),
    Some(<<"c","l","i","n","i","c","i","a","n">>),
    Some(<<"a","d","m","i","n">>) }

NextAuth ==
  \/ \E user_id \in {AMY, BOB}, role \in RequestedRoles :
        UpdateProfile(user_id, role)
  \/ \E user_id \in {AMY, BOB} : SubmitRoleVerification(user_id)
  \/ \E admin_id \in {AMY, DAN}, user_id \in {AMY, BOB, "nobody"},
        action \in {"approve", "reject", "hold"} :
        AdminVerifyUser(admin_id, user_id, action)

SpecAuth == InitAuth /\ [][NextAuth]_vars

\* The consultation routes: amy has accepted cal's appointment request, dan
\* has no doctor.
InitConsult ==
  /\ users = [u \in UserIds |->
                CASE u = AMY -> UserWithRole("doctor")
                  [] u = BOB -> UserWithRole("clinician")
                  [] OTHER   -> UserWithRole("patient")]
  /\ documents = [d \in {DOC_1, DOC_2} |->
                    IF d = DOC_1 THEN Uploaded(CAL, HB_9)
                    ELSE Uploaded(DAN, TSH_2)]
  /\ doctor_patients = <<[NewLink(AMY, CAL) EXCEPT !.status = "active"]>>
  /\ appointing = << >>
  /\ DocsIdle
  /\ approvals = {}
  /\ ConsultIdle
  /\ RateIdle
  /\ answer = NoAnswer
  /\ AssistantIdle

ConsultationIds == 1..MaxConsultations

NextConsult ==
  \/ \E patient_id \in {CAL, DAN}, doctor_id \in {AMY, CAL, "nobody"},
        document_ids \in {<<DOC_1>>, <<DOC_2>>, << >>} :
        RequestConsultation(patient_id, doctor_id, document_ids)
  \/ \E patient_id \in {CAL, DAN}, consultation_id \in ConsultationIds,
        transaction_id \in {"TXN_1", "TXN_2"} :
        PayConsultation(patient_id, consultation_id, transaction_id)
  \/ \E doctor_id \in {AMY, BOB, CAL}, consultation_id \in ConsultationIds,
        response_text \in {<<"o","k">>, <<"r","e","s","t">>} :
        DoctorRespond(doctor_id, consultation_id, response_text)

SpecConsult == InitConsult /\ [][NextConsult]_vars

\* The rate limiter on its own.  main.py builds it with the defaults; it is
\* run here with every small max_requests and window_seconds, which the
\* constructor takes as they come.
InitRate ==
  /\ users = [u \in UserIds |-> NewUser]
  /\ documents = << >>
  /\ LinksIdle
  /\ DocsIdle
  /\ approvals = {}
  /\ ConsultIdle
  /\ limits \in {Limits(m, w) : m \in 1..MaxLimit, w \in 1..MaxWindow}
  /\ requests = << >>
  /\ now = 0
  /\ forwarded = << >>
  /\ answer = NoAnswer
  /\ AssistantIdle

Clients == {"10.0.0.1", "10.0.0.2"}

NextRate ==
  \/ \E client_ip \in Clients,
        path \in {"/api/v1/health", "/health", "/api/v1/documents"} :
        Dispatch(client_ip, path)
  \/ Tick

SpecRate == InitRate /\ [][NextRate]_vars

----------------------------------------------------------------------------
(* Properties *)

\* s.endswith(suffix)
EndsWith(s, suffix) ==
  /\ Len(suffix) <= Len(s)
  /\ SubSeq(s, Len(s) - Len(suffix) + 1, Len(s)) = suffix

\* number of (possibly overlapping) occurrences of sub in s
Occurrences(sub, s) ==
  Cardinality({i \in 0..(Len(s) - Len(sub)) :
                 \A j \in 1..Len(sub) : s[i + j] = sub[j]})

\* the clinician-equivalent role strings
ClinicianEquivalent == {"doctor", "clinician", "admin"}

\* the outcomes of the outbound call that count as a failure of the call
UpstreamFailures == {"timeout", "status", "malformed"}

\* the reply chat() handed to send_message in request r
ReplyOf(r) == Get(turn[r].outcome.response)

\* the text chat() builds the reply from: the raw completion, or the
\* fixed fallback text
BodyOf(r) ==
  IF turn[r].upstream = "completed" THEN Get(turn[r].raw) ELSE FALLBACK_TEXT

\* C1: for every stored role outside doctor/clinician/admin (empty, unset,
\* pending, unrecognised), the system prompt of the turn is an entry of the
\* patient table, followed by the patient suffix and by nothing else when a
\* document is attached, and a returned reply carries the disclaimer; the
\* tier tests of route, chat and sanitize_response agree on the stored role
\* and on the role handed to chat.
C1_UnknownRolesArePatientTier ==
  \A r \in Reqs :
     pc[r] # "idle" =>
       LET t == turn[r]
       IN  /\ \A role \in {t.role_doc, t.user_role} :
                /\ route_is_medical_professional(role)
                     = chat_is_medical_professional(role)
                /\ chat_is_medical_professional(role)
                     = sanitize_is_medical_professional(role)
           /\ t.role_doc \notin ClinicianEquivalent =>
                /\ \E e \in ExpertType :
                      t.system_prompt =
                        PatientPrompt(e) \o
                          (IF t.has_document THEN PATIENT_DOCUMENT_SUFFIX
                                             ELSE << >>)
                /\ pc[r] = "returned" =>
                     EndsWith(ReplyOf(r).content, NLNL \o MEDICAL_DISCLAIMER)

\* C1 witness: a turn of an unrecognised role, with a document, has returned
\* a completion.
C1_Witness ==
  \E r \in Reqs :
     /\ pc[r] = "returned"
     /\ turn[r].role_doc = "nurse"
     /\ turn[r].has_document
     /\ turn[r].upstream = "completed"

\* C2: route picks the clinician table exactly for doctor, clinician and
\* admin and the patient table for every other role, and the prompt it
\* returns is the returned category's entry in that table.
C2_RouteTierAndPrompt ==
  rt_result # << >> =>
    LET res == Get(rt_result)
    IN  /\ res.expert_type \in ExpertType
        /\ PatientPrompt(res.expert_type) # DoctorPrompt(res.expert_type)
        /\ rt_user_role \in ClinicianEquivalent =>
             res.system_prompt = DoctorPrompt(res.expert_type)
        /\ rt_user_role \notin ClinicianEquivalent =>
             res.system_prompt = PatientPrompt(res.expert_type)

\* C2 witness: route has answered an admin with the radiology category.
C2_Witness ==
  /\ rt_result # << >>
  /\ rt_user_role = "admin"
  /\ Get(rt_result).expert_type = RADIOLOGY

\* C3: a reply returned for a role outside doctor/clinician/admin is the
\* body (raw completion or fallback text) followed by the disclaimer,
\* appended exactly once, on the success path and on the fallback path.
C3_PatientReplyEndsWithDisclaimer ==
  \A r \in Reqs :
     (pc[r] = "returned" /\ turn[r].role_doc \notin ClinicianEquivalent) =>
        /\ ReplyOf(r).content = BodyOf(r) \o NLNL \o MEDICAL_DISCLAIMER
        /\ EndsWith(ReplyOf(r).content, NLNL \o MEDICAL_DISCLAIMER)
        /\ Occurrences(MEDICAL_DISCLAIMER, ReplyOf(r).content)
             = Occurrences(MEDICAL_DISCLAIMER, BodyOf(r)) + 1

\* C3 witness: a completion was returned to a user whose role is neither
\* "patient" nor clinician-equivalent.
C3_Witness ==
  \E r \in Reqs :
     /\ pc[r] = "returned"
     /\ turn[r].user_role = "Doctor"
     /\ turn[r].upstream = "completed"

\* C4 as stated: a reply returned for doctor, clinician or admin never has
\* the disclaimer appended to its body, whatever the outcome of the call.
C4_ClinicianNeverDisclaimer ==
  \A r \in Reqs :
     (pc[r] = "returned" /\ turn[r].role_doc \in ClinicianEquivalent) =>
        ReplyOf(r).content # BodyOf(r) \o NLNL \o MEDICAL_DISCLAIMER

\* C4 amended: for doctor, clinician or admin the reply of a successful
\* call is the raw completion with nothing appended, and the reply of the
\* fallback path is the fallback text followed by the disclaimer.
C4_ClinicianDisclaimerOnlyOnFallback ==
  \A r \in Reqs :
     (pc[r] = "returned" /\ turn[r].role_doc \in ClinicianEquivalent) =>
        IF turn[r].upstream = "completed"
        THEN ReplyOf(r).content = Get(turn[r].raw)
        ELSE ReplyOf(r).content = FALLBACK_TEXT \o NLNL \o MEDICAL_DISCLAIMER

\* C4 witness: a completion was returned to a doctor.
C4_Witness ==
  \E r \in Reqs :
     /\ pc[r] = "returned"
     /\ turn[r].role_doc = "doctor"
     /\ turn[r].upstream = "completed"

\* C5: whenever the outbound call failed (timeout, non-2xx status,
\* malformed response), chat raised nothing and returned an AIResponse
\* whose reply is the fixed apologetic text.
C5_FailedCallReturnsFallback ==
  \A r \in Reqs :
     turn[r].upstream \in UpstreamFailures =>
        /\ pc[r] = "returned"
        /\ turn[r].outcome.raised = ""
        /\ Take(ReplyOf(r).content, Len(FALLBACK_TEXT)) = FALLBACK_TEXT

\* C6: when the call failed and chat returned, the reply is the fallback
\* text followed by the disclaimer, tokens_used is 0 and expert_used is the
\* category route chose before the call.
C6_FallbackReply ==
  \A r \in Reqs :
     (turn[r].upstream \in UpstreamFailures /\ pc[r] = "returned") =>
        /\ ReplyOf(r).content = FALLBACK_TEXT \o NLNL \o MEDICAL_DISCLAIMER
        /\ ReplyOf(r).tokens_used = 0
        /\ ReplyOf(r).expert_used = turn[r].expert_type
        /\ ReplyOf(r).expert_used =
             route(turn[r].content, turn[r].has_document,
                   turn[r].user_role).expert_type

\* C6 witness: a timed-out call of a radiology query returned the fallback.
C6_Witness ==
  \E r \in Reqs :
     /\ pc[r] = "returned"
     /\ turn[r].upstream = "timeout"
     /\ turn[r].expert_type = RADIOLOGY

\* C7: with no API key a turn issues no outbound call, raises nothing and
\* returns the fallback reply with the routed category and 0 tokens.
C7_UnconfiguredRecoveredLocally ==
  \A r \in Reqs :
     (NVIDIA_API_KEY = "" /\ pc[r] # "idle") =>
        /\ calls[r] = 0
        /\ pc[r] = "returned"
        /\ turn[r].outcome.raised = ""
        /\ ReplyOf(r).content = FALLBACK_TEXT \o NLNL \o MEDICAL_DISCLAIMER
        /\ ReplyOf(r).expert_used = turn[r].expert_type
        /\ ReplyOf(r).tokens_used = 0

\* C7 witness: an unconfigured service answered a medication query.
C7_Witness ==
  \E r \in Reqs :
     /\ NVIDIA_API_KEY = ""
     /\ pc[r] = "returned"
     /\ turn[r].upstream = "unconfigured"
     /\ turn[r].expert_type = MEDICATION

UserStored(r) == \E i \in 1..Len(stored) : stored[i].id = <<r, "user">>
AssistantStored(r) == \E i \in 1..Len(stored) : stored[i].id = <<r, "assistant">>

\* C8: a request that has ended and stored the user's message has stored an
\* assistant reply for it and returned that reply, whatever the outcome of
\* the call.
C8_EveryUserMessageGetsReply ==
  \A r \in Reqs :
     (pc[r] \in {"returned", "raised"} /\ UserStored(r)) =>
        /\ pc[r] = "returned"
        /\ AssistantStored(r)

\* keyword count of category e in the query given to route
CountOf(e) ==
  Score(CASE e = LAB_ANALYSIS -> LAB_KEYWORDS
          [] e = MEDICATION   -> MEDICATION_KEYWORDS
          [] e = RADIOLOGY    -> RADIOLOGY_KEYWORDS
          [] OTHER            -> << >>,
        Lower(rt_query))

Keyworded == {LAB_ANALYSIS, MEDICATION, RADIOLOGY}

\* position in the fixed enumeration order
OrderOf(e) ==
  CASE e = LAB_ANALYSIS -> 1 [] e = MEDICATION -> 2 [] e = RADIOLOGY -> 3
    [] OTHER -> 4

\* C9: when keywords of two or more categories occur and one category's
\* count is strictly the highest, route returns that category.
C9_HighestCountWins ==
  rt_result # << >> =>
    \A e \in Keyworded :
       ( /\ \E d \in Keyworded \ {e} : CountOf(d) > 0
         /\ \A d \in Keyworded \ {e} : CountOf(e) > CountOf(d) )
       => Get(rt_result).expert_type = e

\* C9 witness: radiology out-scored a lab keyword that also occurs.
C9_Witness ==
  /\ rt_result # << >>
  /\ CountOf(LAB_ANALYSIS) > 0
  /\ CountOf(RADIOLOGY) > CountOf(LAB_ANALYSIS)
  /\ CountOf(RADIOLOGY) > CountOf(MEDICATION)
  /\ Get(rt_result).expert_type = RADIOLOGY

\* C10: when several categories share the highest non-zero count, route
\* returns the one of them that comes first in lab_analysis, medication,
\* radiology.
C10_TieGoesToFirstEnumerated ==
  rt_result # << >> =>
    \A e \in Keyworded :
       ( /\ CountOf(e) > 0
         /\ \A d \in Keyworded : CountOf(d) <= CountOf(e)
         /\ \E d \in Keyworded \ {e} : CountOf(d) = CountOf(e)
         /\ \A d \in Keyworded :
               CountOf(d) = CountOf(e) => OrderOf(e) <= OrderOf(d) )
       => Get(rt_result).expert_type = e

\* C10 witness: medication and radiology tied above lab_analysis and
\* medication was returned.
C10_Witness ==
  /\ rt_result # << >>
  /\ CountOf(MEDICATION) > 0
  /\ CountOf(MEDICATION) = CountOf(RADIOLOGY)
  /\ CountOf(LAB_ANALYSIS) < CountOf(MEDICATION)
  /\ Get(rt_result).expert_type = MEDICATION

\* C11: when keywords of exactly one category occur in the query, route
\* returns that category, from the patient table and from the clinician
\* table alike.
C11_SingleCategoryWins ==
  rt_result # << >> =>
    \A e \in Keyworded :
       ( /\ CountOf(e) > 0
         /\ \A d \in Keyworded \ {e} : CountOf(d) = 0 )
       => /\ Get(rt_result).expert_type = e
          /\ Get(rt_result).system_prompt =
               IF rt_user_role \in ClinicianEquivalent
               THEN DoctorPrompt(e) ELSE PatientPrompt(e)

\* C11 witness: a doctor's query with one medication keyword and no other
\* keyword was routed to medication.
C11_Witness ==
  /\ rt_result # << >>
  /\ rt_user_role = "doctor"
  /\ CountOf(MEDICATION) = 1
  /\ CountOf(LAB_ANALYSIS) = 0
  /\ CountOf(RADIOLOGY) = 0
  /\ Get(rt_result).expert_type = MEDICATION

\* C12: route always answers, and for a query in which no keyword of any
\* category occurs (the empty query included) the answer is general_health
\* with the general prompt of the role's table.
C12_NoKeywordFallsBack ==
  /\ rt_result = << >> =>
       route(rt_query, rt_has_document, rt_user_role).expert_type \in ExpertType
  /\ rt_result # << >> =>
       /\ Get(rt_result).expert_type \in ExpertType
       /\ (\A e \in Keyworded : CountOf(e) = 0) =>
            /\ Get(rt_result).expert_type = GENERAL
            /\ Get(rt_result).system_prompt =
                 IF rt_user_role \in ClinicianEquivalent
                 THEN DoctorPrompt(GENERAL) ELSE PatientPrompt(GENERAL)

\* C12 witness: the empty query was routed to general_health.
C12_Witness ==
  /\ rt_result # << >>
  /\ rt_query = << >>
  /\ Get(rt_result).expert_type = GENERAL

\* C18: route returns the same category and the same prompt whether
\* has_document is true or false.
C18_DocumentFlagIgnored ==
  rt_result # << >> =>
    /\ Get(rt_result) = route(rt_query, TRUE, rt_user_role)
    /\ Get(rt_result) = route(rt_query, FALSE, rt_user_role)

\* C18 witness: a keyworded query was routed with has_document true.
C18_Witness ==
  /\ rt_result # << >>
  /\ rt_has_document
  /\ Get(rt_result).expert_type = LAB_ANALYSIS

\* a document context that is present and not blank
DocumentSupplied ==
  /\ ch_document_context # << >>
  /\ \E i \in 1..Len(Get(ch_document_context)) :
        Get(ch_document_context)[i] \notin {" ", "\n", "\t", "\r"}

\* C15: without a non-blank document context the system prompt is the
\* routed prompt unchanged; with one it is the routed prompt followed by
\* exactly one suffix, the clinician suffix for doctor, clinician and admin
\* and the patient suffix for every other role.
C15_DocumentSuffix ==
  ch_prepared # << >> =>
    LET routed == route(ch_query, DocumentSupplied, ch_user_role).system_prompt
    IN  /\ DOCTOR_DOCUMENT_SUFFIX # PATIENT_DOCUMENT_SUFFIX
        /\ Get(ch_prepared).system_prompt =
             IF ~DocumentSupplied THEN routed
             ELSE IF ch_user_role \in ClinicianEquivalent
                  THEN routed \o DOCTOR_DOCUMENT_SUFFIX
                  ELSE routed \o PATIENT_DOCUMENT_SUFFIX

\* C15 witness: a prompt was built for a whitespace-only document context.
C15_Witness ==
  /\ ch_prepared # << >>
  /\ ch_document_context = Some(<<" ", "\n">>)
  /\ ch_user_role = "clinician"

\* C16: the turns sent to the model are the last 10 entries of the
\* supplied history (all of them when there are fewer), in their order,
\* followed by the current user turn.
C16_HistoryWindow ==
  ch_prepared # << >> =>
    LET msgs == Get(ch_prepared).messages
        h == ch_conversation_history
        k == IF Len(h) < 10 THEN Len(h) ELSE 10
    IN  /\ Len(msgs) = k + 1
        /\ \A i \in 1..k : msgs[i] = h[Len(h) - k + i]
        /\ msgs[k + 1].role = "user"
        /\ Contains(ch_query, msgs[k + 1].content)

\* C16 witness: turns were built from a history of more than 10 entries.
C16_Witness ==
  /\ ch_prepared # << >>
  /\ Len(ch_conversation_history) = 11

\* the query contains a diagnosis-seeking phrase
DiagnosisSeeking(query) ==
  \E i \in 1..Len(diagnosis_keywords) :
     Contains(diagnosis_keywords[i], Lower(query))

\* the text contains a blocked phrase, case-insensitively
BlockedIn(text) ==
  \E i \in 1..Len(BLOCKED_PATTERNS) :
     Contains(BLOCKED_PATTERNS[i], Lower(text))

\* C13: the pre-check never blocks or rewrites: with the service
\* configured the call is issued, the outgoing user message holds the
\* original query (wrapped with the document when there is one), and the
\* clarifying note follows it exactly when the query contains a
\* diagnosis-seeking phrase and the role is not doctor, clinician or admin.
C13_SafetyNoteOnly ==
  \A r \in Reqs :
     pc[r] # "idle" =>
       LET t == turn[r]
           base == IF t.has_document
                   THEN DOCUMENT_HEAD \o Get(t.document_context)
                          \o DOCUMENT_MID \o t.content \o DOCUMENT_TAIL
                   ELSE t.content
           noted == /\ DiagnosisSeeking(t.content)
                    /\ t.user_role \notin ClinicianEquivalent
       IN  /\ NVIDIA_API_KEY # "" => calls[r] = 1
           /\ t.messages[Len(t.messages)].role = "user"
           /\ t.messages[Len(t.messages)].content =
                IF noted THEN base \o SAFETY_NOTE ELSE base

\* C13 witness: a diagnosis-seeking query of an unrecognised role went out
\* to the model.
C13_Witness ==
  \E r \in Reqs :
     /\ pc[r] = "awaiting"
     /\ calls[r] = 1
     /\ DiagnosisSeeking(turn[r].content)
     /\ turn[r].user_role = "nurse"

\* C14: on the success path the reply is the raw completion unchanged for
\* doctor, clinician and admin, and the raw completion followed only by
\* the disclaimer for every other role, with or without blocked phrases.
C14_ReplyNeverAltered ==
  \A r \in Reqs :
     (pc[r] = "returned" /\ turn[r].upstream = "completed") =>
        ReplyOf(r).content =
          IF turn[r].user_role \in ClinicianEquivalent
          THEN Get(turn[r].raw)
          ELSE Get(turn[r].raw) \o NLNL \o MEDICAL_DISCLAIMER

\* C14 witness: a completion with a blocked phrase was returned to a
\* patient.
C14_Witness ==
  \E r \in Reqs :
     /\ pc[r] = "returned"
     /\ turn[r].upstream = "completed"
     /\ turn[r].user_role = "patient"
     /\ BlockedIn(Get(turn[r].raw))

C20_BlockedPhraseWarns ==
  \A r \in Reqs :
     ( /\ turn[r].upstream = "completed"
       /\ turn[r].user_role \notin ClinicianEquivalent
       /\ BlockedIn(Get(turn[r].raw)) )
     => turn[r].warnings # << >>

\* C19: however concurrent turns interleave, each turn has the category,
\* the system prompt, the outgoing turns and the reply that its own query,
\* document context, history, role and upstream response determine, and
\* the prompt tables are as loaded: no suffix added in one turn shows up in
\* another.
C19_TurnsIndependent ==
  /\ system_prompts = LiteralPrompts
  /\ \A r \in DOMAIN pc :
        pc[r] # "idle" =>
          LET t == turn[r]
              clinician == t.user_role \in ClinicianEquivalent
              with_doc == /\ t.document_context # << >>
                          /\ NonBlank(Get(t.document_context))
              table_prompt == IF clinician THEN DoctorPrompt(t.expert_type)
                                           ELSE PatientPrompt(t.expert_type)
              suffix == IF ~with_doc THEN << >>
                        ELSE IF clinician THEN DOCTOR_DOCUMENT_SUFFIX
                                          ELSE PATIENT_DOCUMENT_SUFFIX
              window == LastN(t.conversation_history, 10)
          IN  /\ t.expert_type =
                   route(t.content, with_doc, t.user_role).expert_type
              /\ t.system_prompt = table_prompt \o suffix
              /\ Len(t.messages) = Len(window) + 1
              /\ \A i \in 1..Len(window) : t.messages[i] = window[i]
              /\ Contains(t.content, t.messages[Len(t.messages)].content)
              /\ pc[r] = "returned" =>
                   /\ ReplyOf(r).expert_used = t.expert_type
                   /\ ReplyOf(r).content =
                        IF t.upstream # "completed"
                        THEN FALLBACK_TEXT \o NLNL \o MEDICAL_DISCLAIMER
                        ELSE IF clinician THEN Get(t.raw)
                        ELSE Get(t.raw) \o NLNL \o MEDICAL_DISCLAIMER

\* C19 witness: two turns routed to the same category are suspended at
\* their calls together, one with a document and one without.
C19_Witness ==
  \E r1, r2 \in DOMAIN pc :
     /\ r1 # r2
     /\ pc[r1] = "awaiting"
     /\ pc[r2] = "awaiting"
     /\ turn[r1].has_document
     /\ ~turn[r2].has_document
     /\ turn[r1].expert_type = turn[r2].expert_type

\* keywords of category e that occur at least once, anywhere, in the
\* lower-cased query given to route
Hits(e) ==
  LET keywords == CASE e = LAB_ANALYSIS -> LAB_KEYWORDS
                    [] e = MEDICATION   -> MEDICATION_KEYWORDS
                    [] e = RADIOLOGY    -> RADIOLOGY_KEYWORDS
                    [] OTHER            -> << >>
  IN  Cardinality({i \in 1..Len(keywords) :
                     Occurrences(keywords[i], Lower(rt_query)) >= 1})

\* C21: the score of a category is the number of its keywords that occur as
\* substrings of the lower-cased query: the routed category is the first one
\* with the most such keywords; "alt" inside "health" counts, "pill" twice
\* counts once, and "normal" inside "abnormal" counts beside "abnormal".
C21_SubstringScore ==
  rt_result # << >> =>
    LET winner == Get(rt_result).expert_type
    IN  /\ (\A e \in Keyworded : Hits(e) = 0) => winner = GENERAL
        /\ (\E e \in Keyworded : Hits(e) > 0) =>
              /\ winner \in Keyworded
              /\ \A e \in Keyworded :
                    \/ Hits(e) < Hits(winner)
                    \/ Hits(e) = Hits(winner) /\ OrderOf(winner) <= OrderOf(e)
        /\ rt_query = <<"h","e","a","l","t","h">> => winner = LAB_ANALYSIS
        /\ rt_query = PillPillBlood => winner = LAB_ANALYSIS
        /\ rt_query = <<"a","b","n","o","r","m","a","l"," ","d","o","s","e">>
              => winner = LAB_ANALYSIS

\* C21 witness: "pill pill blood" was routed; medication and lab each score 1
\* and the tie went to lab_analysis.
C21_Witness ==
  /\ rt_result # << >>
  /\ rt_query = PillPillBlood
  /\ Hits(MEDICATION) = 1
  /\ Hits(LAB_ANALYSIS) = 1
  /\ Get(rt_result).expert_type = LAB_ANALYSIS

\* position of request r's own user message in the stored messages
OwnMessageAt(r) ==
  CHOOSE i \in 1..Len(stored) : stored[i].id = <<r, "user">>

\* C22: the history send_message passes to chat holds only the messages
\* stored before the request's own user message, and among the turns sent
\* to the model exactly one carries the current message.
C22_CurrentMessageOnce ==
  \A r \in DOMAIN pc :
     pc[r] # "idle" =>
       /\ Len(turn[r].conversation_history) = OwnMessageAt(r) - 1
       /\ Cardinality({i \in 1..Len(turn[r].messages) :
                         /\ turn[r].messages[i].role = "user"
                         /\ Contains(turn[r].content,
                                     turn[r].messages[i].content)}) = 1

\* the handlers through which a practitioner reads a patient's documents
DocumentReads ==
  {"get_patient_documents", "get_patient_document_detail", "get_document_url"}

\* C23: a request through one of the three handlers hands a patient's
\* documents to another user only while a link between that user, as doctor,
\* and that patient is active with document_access granted.
C23_DocumentsOnlyWhileGranted ==
  ( /\ answer.handler \in DocumentReads
    /\ answer.status = 200
    /\ answer.user # answer.patient_id )
  => \E i \in 1..Len(doctor_patients) :
        /\ doctor_patients[i].doctor_id = answer.user
        /\ doctor_patients[i].patient_id = answer.patient_id
        /\ doctor_patients[i].status = "active"
        /\ doctor_patients[i].document_access = "granted"

\* C24: once delete_document has marked a document deleted, the document
\* context of a chat turn never holds its OCR text, whether the request
\* selects it by id or the conversation links it.
C24_DeletedTextNeverInContext ==
  (answer.handler = "send_message" /\ answer.text # << >>)
  => \A d \in deleted : ~Contains(documents[d].ocr_text, Get(answer.text))

\* the ids of a request that name a document of the caller
OwnIds(document_ids, user_id) ==
  SelectSeq(document_ids,
            LAMBDA d : d \in DOMAIN documents /\ documents[d].user_id = user_id)

\* C25: the document context of a chat turn holds no OCR text of a document
\* whose user_id is not the caller, and is the context the same request
\* would get with the ids of other users' documents left out.
C25_ContextOnlyFromOwnDocuments ==
  (answer.handler = "send_message" /\ answer.status = 200)
  => /\ answer.text # << >> =>
          \A d \in DOMAIN documents :
             documents[d].user_id # answer.user
               => ~Contains(documents[d].ocr_text, Get(answer.text))
     /\ answer.document_ids # << >> =>
          answer.text =
            get_selected_documents_context(
              OwnIds(answer.document_ids, answer.user), answer.user)

\* C25 witness: cal selected dan's document together with an own one, and
\* the context holds cal's text only.
C25_Witness ==
  /\ answer.handler = "send_message"
  /\ answer.user = CAL
  /\ answer.document_ids = << DOC_2, DOC_1 >>
  /\ answer.text # << >>
  /\ Contains(HB_9, Get(answer.text))
  /\ ~Contains(TSH_2, Get(answer.text))

\* the handlers that show an owner the own documents
OwnerReads == {"list_documents", "get_document"}

\* C26: a document delete_document has marked deleted is never again listed
\* by list_documents nor returned by get_document, whatever requests follow.
C26_DeletedStaysHidden ==
  (answer.handler \in OwnerReads /\ answer.status = 200)
  => answer.documents \cap deleted = {}

\* C27: a stored role of doctor or clinician was written by an admin's
\* approval of that user's matching pending role; no request of the user
\* alone puts it there.
C27_ClinicianRoleOnlyByApproval ==
  \A u \in DOMAIN users :
     users[u].role \in {"doctor", "clinician"} =>
       \E a \in approvals :
          /\ a.user_id = u
          /\ APPROVED_ROLE_MAP[a.pending_role] = users[u].role
          /\ a.verified_by # u

\* C27 witness: amy asked for the doctor role and dan approved it.
C27_Witness ==
  /\ users[AMY].role = "doctor"
  /\ [user_id |-> AMY, pending_role |-> "doctor_pending", verified_by |-> DAN]
       \in approvals

\* C28: for every (doctor, patient) pair at most one doctor_patients link has
\* status pending_appointment or active, also when request_appointment
\* requests of the pair are in flight together.
C28_OneOpenLinkPerPair ==
  \A i, j \in 1..Len(doctor_patients) :
     ( /\ doctor_patients[i].doctor_id = doctor_patients[j].doctor_id
       /\ doctor_patients[i].patient_id = doctor_patients[j].patient_id
       /\ doctor_patients[i].status \in {"pending_appointment", "active"}
       /\ doctor_patients[j].status \in {"pending_appointment", "active"} )
     => i = j

\* the place of a consultation status in pending_payment, in_review, completed
StatusRank(status) ==
  CASE status = "pending_payment" -> 1
    [] status = "in_review"       -> 2
    [] status = "completed"       -> 3

RECURSIVE ForwardedIn(_, _, _)
ForwardedIn(client_ip, lo, hi) ==
  IF lo > hi THEN 0
  ELSE Forwarded(client_ip, lo) + ForwardedIn(client_ip, lo + 1, hi)

\* how often the timestamp stands in the client's recorded list
Recorded(client_ip, t) ==
  Len(SelectSeq(RequestsOf(client_ip), LAMBDA x : x = t))

\* C30: per client, the counted requests passed on with a timestamp in any
\* window (s, s + window_seconds] are at most max_requests, and the client's
\* list records only requests that were passed on, none answered with 429.
C30_WindowNeverExceedsLimit ==
  \A client_ip \in Clients :
     /\ \A s \in (0 - limits.window_seconds)..now :
           ForwardedIn(client_ip, s + 1, s + limits.window_seconds)
             <= limits.max_requests
     /\ \A t \in 0..now : Recorded(client_ip, t) <= Forwarded(client_ip, t)

\* C30 witness: a client has used its window up and its next request was
\* answered with 429.
C30_Witness ==
  /\ answer.handler = "dispatch"
  /\ answer.status = 429
  /\ ForwardedIn(answer.user, now - limits.window_seconds + 1, now)
       = limits.max_requests
  /\ Len(RequestsOf(answer.user)) = limits.max_requests

====
